---- MODULE Spec2Model ----
(***************************************************************************)
(* Thread/message store, plan limits and title assignment of the chat      *)
(* backend (app/services/chat_service.py, app/services/plan_limits.py and  *)
(* the HTTP handlers of app/api).                                          *)
(*                                                                         *)
(* Text values (str) are sequences of one-character strings, so that       *)
(* strip(), lower(), re.sub(r"\s+", " ", ...) and slicing are computed.    *)
(* Python's None is the value None below (a tuple no text value equals).   *)
(***************************************************************************)
EXTENDS Integers, Sequences, FiniteSets, TLC

VARIABLES users, threads, nextId, now, last, sessions

vars == <<users, threads, nextId, now, last, sessions>>

None == <<"None">>

\* ------------------------------------------------------------------ bounds
MaxIds == 2          \* thread ids handed out in Spec
MaxMsgs == 2         \* chat_messages rows in Spec
MaxClock == 1        \* the last value of the database clock in Spec
MaxTitleIds == 2     \* thread ids handed out in SpecTitle
MaxTitleMsgs == 2    \* chat_messages rows in SpecTitle
MaxLimitIds == 6     \* thread ids handed out in SpecThreads
MaxLongLen == 32     \* rows of the thread of SpecLong
TickEvery == 8       \* rows appended per tick of the clock in SpecLong
MaxSessions == 2     \* requests served at the same time in SpecRace
MaxHeaderParts == 2  \* parts of a Stripe-Signature header in SpecWebhook

\* ------------------------------------------------------------------ text
WS == {" ", "\t", "\n", "\r"}

AlphaLower == <<"a","b","c","d","e","f","g","h","i","j","k","l","m",
                "n","o","p","q","r","s","t","u","v","w","x","y","z">>
AlphaUpper == <<"A","B","C","D","E","F","G","H","I","J","K","L","M",
                "N","O","P","Q","R","S","T","U","V","W","X","Y","Z">>

LowerChar(c) ==
    IF \E i \in 1..26 : AlphaUpper[i] = c
    THEN AlphaLower[CHOOSE i \in 1..26 : AlphaUpper[i] = c]
    ELSE c

UpperChar(c) ==
    IF \E i \in 1..26 : AlphaLower[i] = c
    THEN AlphaUpper[CHOOSE i \in 1..26 : AlphaLower[i] = c]
    ELSE c

\* str.lower(), str.upper()
Lower(s) == [i \in 1..Len(s) |-> LowerChar(s[i])]
Upper(s) == [i \in 1..Len(s) |-> UpperChar(s[i])]

\* str.strip(): leading and trailing whitespace removed
Strip(s) ==
    LET keep == {i \in 1..Len(s) : s[i] \notin WS}
    IN  IF keep = {} THEN <<>>
        ELSE SubSeq(s, CHOOSE i \in keep : \A j \in keep : i <= j,
                       CHOOSE i \in keep : \A j \in keep : i >= j)

\* re.sub(r"\s+", " ", s): every maximal run of whitespace becomes one space
RECURSIVE CollapseFrom(_, _)
CollapseFrom(s, i) ==
    IF i > Len(s) THEN <<>>
    ELSE IF s[i] \notin WS THEN <<s[i]>> \o CollapseFrom(s, i + 1)
    ELSE IF i = 1 \/ s[i - 1] \notin WS THEN <<" ">> \o CollapseFrom(s, i + 1)
    ELSE CollapseFrom(s, i + 1)

CollapseWs(s) == CollapseFrom(s, 1)

\* Python's `x or d` on an Optional[str]: None and "" are falsy
OrElse(x, d) == IF x = None \/ x = <<>> THEN d ELSE x

\* ------------------------------------------------------------------ plans
TxtBase == <<"b","a","s","e">>
TxtPremium == <<"p","r","e","m","i","u","m">>
TxtPREMIUM == <<"P","R","E","M","I","U","M">>
TxtBASE == <<"B","A","S","E">>
TxtActive == <<"a","c","t","i","v","e">>
TxtPastDue == <<"p","a","s","t","_","d","u","e">>
TxtTrialing == <<"t","r","i","a","l","i","n","g">>
TxtCanceled == <<"c","a","n","c","e","l","e","d">>
TxtSub == <<"s","u","b","_","1">>
TxtCus == <<"c","u","s","_","1">>

\* ChatService._effective_plan, the legacy fallback with `==` weakened to
\* "tier is PREMIUM", the subscription id not consulted
EffectivePlanNoSubCheck(user) ==
    LET plan == Lower(Strip(OrElse(user.plan, TxtBase)))
        status == Lower(Strip(OrElse(user.plan_status, <<>>)))
        legacy_tier == Upper(Strip(OrElse(user.subscription_tier, <<>>)))
    IN  IF plan = TxtPremium /\ status \in {TxtActive, TxtPastDue, TxtTrialing}
        THEN "premium"
        ELSE IF legacy_tier = TxtPREMIUM THEN "premium"
        ELSE "base"

\* ChatService._effective_plan
EffectivePlan(user) ==
    LET plan == Lower(Strip(OrElse(user.plan, TxtBase)))
        status == Lower(Strip(OrElse(user.plan_status, <<>>)))
        legacy_tier == Upper(Strip(OrElse(user.subscription_tier, <<>>)))
    IN  IF plan = TxtPremium /\ status \in {TxtActive, TxtPastDue, TxtTrialing}
        THEN "premium"
        ELSE IF legacy_tier = TxtPREMIUM
                /\ user.stripe_subscription_id # None
                /\ user.stripe_subscription_id # <<>>
        THEN "premium"
        ELSE "base"

\* PlanLimits of the base plan; 0 stands for None (no limit)
BaseMaxThreads == 5
BaseMaxMessages == 30
BASE_CONTEXT_MAX_MESSAGES == 12
NoLimit == 0

\* get_limits_for_plan
GetLimitsForPlan(plan) ==
    IF plan = "premium"
    THEN [max_threads |-> NoLimit, max_messages_per_thread |-> NoLimit]
    ELSE [max_threads |-> BaseMaxThreads, max_messages_per_thread |-> BaseMaxMessages]

\* ------------------------------------------------------------------ titles
TitleMaxLen == 40
TxtNewChat == <<"N","e","w"," ","C","h","a","t">>
Ellipsis == <<".",".",".">>

\* ChatService._title_from_first_user_message
TitleFromFirstUserMessage(message) ==
    LET normalized == Strip(CollapseWs(OrElse(message, <<>>)))
    IN  IF normalized = <<>> THEN TxtNewChat
        ELSE IF Len(normalized) > TitleMaxLen
        THEN SubSeq(normalized, 1, TitleMaxLen) \o Ellipsis
        ELSE normalized

\* ChatService._is_title_set (defined by the service, called nowhere)
IsTitleSet(title) == Strip(OrElse(title, <<>>)) # <<>>

\* ------------------------------------------------------------------ store
\* users: id -> [plan, plan_status, subscription_tier, stripe_customer_id,
\* stripe_subscription_id, plan_renews_at]
\* threads: id -> [user_id, title, created_at, updated_at, messages]; a thread's
\* messages are its chat_messages rows in insertion (id) order, each
\* [role, content, created_at, image].
Users == {"a", "b"}

\* UserService.create_user: plan base, tier BASE, the billing fields NULL
FreshUser ==
    [plan |-> TxtBase, plan_status |-> None, subscription_tier |-> TxtBASE,
     stripe_customer_id |-> None, stripe_subscription_id |-> None,
     plan_renews_at |-> None]

PremiumUser ==
    [plan |-> TxtPremium, plan_status |-> TxtActive, subscription_tier |-> TxtPREMIUM,
     stripe_customer_id |-> TxtCus, stripe_subscription_id |-> TxtSub,
     plan_renews_at |-> None]

\* BillingService._apply_premium after a checkout: a subscriber
\* (PremiumUser above), and BillingService._apply_base(status="canceled"):
\* a subscriber whose subscription was canceled
LapsedUser ==
    [plan |-> TxtBase, plan_status |-> TxtCanceled, subscription_tier |-> TxtBASE,
     stripe_customer_id |-> TxtCus, stripe_subscription_id |-> None,
     plan_renews_at |-> None]

\* a subscriber of before the plan column: the legacy tier flag and a
\* subscription id, the plan column at its default
LegacyPremiumUser ==
    [plan |-> TxtBase, plan_status |-> None, subscription_tier |-> TxtPREMIUM,
     stripe_customer_id |-> None, stripe_subscription_id |-> TxtSub,
     plan_renews_at |-> None]

NoThreads == [i \in {} |-> 0]

\* no request in flight: every Session of get_db() is closed
NoSessions == [r \in {} |-> 0]

NoLast ==
    [op |-> "init", caller |-> "a", tid |-> 0, ret |-> "", http |-> 0,
     code |-> "", limit |-> 0, result |-> <<>>]

\* ChatService.get_thread(...) is not None
Owns(thr, tid, uid) == tid \in DOMAIN thr /\ thr[tid].user_id = uid

\* ChatService.get_thread_any(...) is not None
ExistsAny(thr, tid) == tid \in DOMAIN thr

\* db.query(ChatThread).filter(ChatThread.user_id == user_id).count()
ThreadCount(thr, uid) == Cardinality({i \in DOMAIN thr : thr[i].user_id = uid})

\* the message-limit count with the role filter left out
CountEveryRole(msgs) == Len(msgs)

\* db.query(ChatMessage).filter(thread_id == ..., role.in_(["user", "assistant"])).count()
CountedMessages(msgs) ==
    Cardinality({i \in 1..Len(msgs) : msgs[i].role \in {"user", "assistant"}})

\* db.query(ChatMessage).filter(thread_id == ..., role == "user").first() is not None
HasUserMessage(msgs) == \E i \in 1..Len(msgs) : msgs[i].role = "user"

\* the thread-limit branch of create_thread / create_thread_with_first_user_message
ThreadLimitHit(thr, usr, uid) ==
    LET limits == GetLimitsForPlan(EffectivePlan(usr[uid]))
    IN  limits.max_threads # NoLimit /\ ThreadCount(thr, uid) >= limits.max_threads

\* the message-limit branch of add_message / add_image_message
MessageLimitHit(thr, usr, tid, uid) ==
    LET limits == GetLimitsForPlan(EffectivePlan(usr[uid]))
    IN  limits.max_messages_per_thread # NoLimit
        /\ CountedMessages(thr[tid].messages) >= limits.max_messages_per_thread

\* add_message's title rule with the `title is None` test dropped
TitleOverwrittenByUser(thread, role, content) ==
    IF role = "user" THEN TitleFromFirstUserMessage(content) ELSE thread.title

\* add_message, lines 270-282: the title the thread has after the append
TitleAfterAddMessage(thread, role, content) ==
    IF role = "user" /\ thread.title = None /\ ~HasUserMessage(thread.messages)
    THEN TitleFromFirstUserMessage(content)
    ELSE thread.title

\* add_image_message, lines 347-356
TitleAfterAddImageMessage(thread, role, content) ==
    LET normalized_content == Strip(OrElse(content, <<>>))
    IN  IF role = "user" /\ thread.title = None /\ normalized_content # <<>>
           /\ ~HasUserMessage(thread.messages)
        THEN TitleFromFirstUserMessage(normalized_content)
        ELSE thread.title

Msg(role, content, t, image) ==
    [role |-> role, content |-> content, created_at |-> t, image |-> image]

\* ORDER BY created_at: rows of equal created_at come back in an order the
\* database chooses; `rev` picks between insertion order and its reverse
\* within each run of equal created_at (rows are inserted in clock order).
OrderByCreatedAt(msgs, rev) ==
    IF ~rev THEN msgs
    ELSE [i \in 1..Len(msgs) |->
            LET same == {j \in 1..Len(msgs) : msgs[j].created_at = msgs[i].created_at}
                lo == CHOOSE j \in same : \A k \in same : j <= k
                hi == CHOOSE j \in same : \A k \in same : j >= k
            IN  msgs[lo + hi - i]]

\* ---------------------------------------------------------------- service
\* What an operation reports: `ret` is the service method's return value or
\* exception, `http` the status of the handler (0 when the service method is
\* called directly), `code`/`limit` the PlanLimitExceeded detail, `result` the
\* rows a read returns.
Report(op, uid, tid, ret, http, code, limit, result) ==
    [op |-> op, caller |-> uid, tid |-> tid, ret |-> ret, http |-> http,
     code |-> code, limit |-> limit, result |-> result]

\* Session.begin() where the session already holds the transaction that the
\* first query of the request began (autobegin): InvalidRequestError
SessionBegin(inTransaction) ==
    IF inTransaction THEN "InvalidRequestError" ELSE "begun"

\* the session's state after `db.query(User)...first()`
AutobegunByQuery == TRUE

\* the rows add_message leaves in the store, and what it returns
SvcAddMessage(thr, usr, tid, uid, role, content, t) ==
    IF ~Owns(thr, tid, uid) THEN [ret |-> "None", thr |-> thr]
    ELSE IF MessageLimitHit(thr, usr, tid, uid) THEN [ret |-> "PlanLimit", thr |-> thr]
    ELSE [ret |-> "ok",
          thr |-> [thr EXCEPT ![tid] =
                     [@ EXCEPT !.title = TitleAfterAddMessage(thr[tid], role, content),
                               !.messages = Append(@, Msg(role, content, t, FALSE)),
                               !.updated_at = t]]]

\* add_image_message
SvcAddImageMessage(thr, usr, tid, uid, role, content, t) ==
    IF ~Owns(thr, tid, uid) THEN [ret |-> "None", thr |-> thr]
    ELSE IF MessageLimitHit(thr, usr, tid, uid) THEN [ret |-> "PlanLimit", thr |-> thr]
    ELSE [ret |-> "ok",
          thr |-> [thr EXCEPT ![tid] =
                     [@ EXCEPT !.title = TitleAfterAddImageMessage(thr[tid], role, content),
                               !.messages = Append(@, Msg(role, Strip(OrElse(content, <<>>)), t, TRUE)),
                               !.updated_at = t]]]

\* replace_messages clearing the title along with the rows
ReplaceMessagesResetsTitle(thr, tid, uid, msgs, t) ==
    IF ~Owns(thr, tid, uid) THEN [ret |-> "None", thr |-> thr]
    ELSE [ret |-> "ok",
          thr |-> [thr EXCEPT ![tid] =
                     [@ EXCEPT !.title = None,
                               !.messages =
                                  [i \in 1..Len(msgs) |-> Msg(msgs[i].role, msgs[i].content, t, FALSE)],
                               !.updated_at = t]]]

\* replace_messages: every old row deleted, the given rows inserted in one
\* transaction (one value of now()), the title not touched
SvcReplaceMessages(thr, tid, uid, msgs, t) ==
    IF ~Owns(thr, tid, uid) THEN [ret |-> "None", thr |-> thr]
    ELSE [ret |-> "ok",
          thr |-> [thr EXCEPT ![tid] =
                     [@ EXCEPT !.messages =
                                  [i \in 1..Len(msgs) |-> Msg(msgs[i].role, msgs[i].content, t, FALSE)],
                               !.updated_at = t]]]

\* get_context_messages: the plan is that of `uid`, the rows those of `tid`
ContextMessages(thr, usr, tid, uid, rev) ==
    LET plan == EffectivePlan(usr[uid])
        msgs == IF tid \in DOMAIN thr THEN OrderByCreatedAt(thr[tid].messages, rev) ELSE <<>>
    IN  IF plan = "base" /\ Len(msgs) > BASE_CONTEXT_MAX_MESSAGES
        THEN SubSeq(msgs, Len(msgs) - BASE_CONTEXT_MAX_MESSAGES + 1, Len(msgs))
        ELSE msgs

\* generate_assistant_reply: the stub reply
TxtReply == <<"M","O","D","E","L"," ","P","I","P","E","L","I","N","E"," ",
              "C","O","N","N","E","C","T","E","D"," ",
              "S","U","C","C","E","S","S","F","U","L","L","Y">>

\* get_user_threads: the caller's thread ids, ORDER BY updated_at DESC
UserThreads(thr, uid, rev) ==
    LET own == {i \in DOMAIN thr : thr[i].user_id = uid}
        before(j, i) == \/ thr[j].updated_at > thr[i].updated_at
                        \/ /\ thr[j].updated_at = thr[i].updated_at
                           /\ IF rev THEN j > i ELSE j < i
    IN  [k \in 1..Cardinality(own) |->
            CHOOSE i \in own : Cardinality({j \in own : before(j, i)}) = k - 1]

NewThread(uid, title, t, msgs) ==
    [user_id |-> uid, title |-> title, created_at |-> t, updated_at |-> t, messages |-> msgs]

\* ---------------------------------------------------------------- actions
Unchanged == UNCHANGED <<users, threads, nextId, now, sessions>>

PlanLimitChats(op, uid, http) ==
    Report(op, uid, 0, "PlanLimit", http, "PLAN_MAX_CHATS",
           GetLimitsForPlan(EffectivePlan(users[uid])).max_threads, <<>>)

PlanLimitMessages(op, uid, tid) ==
    Report(op, uid, tid, "PlanLimit", 402, "PLAN_MAX_MESSAGES",
           GetLimitsForPlan(EffectivePlan(users[uid])).max_messages_per_thread, <<>>)

\* ChatService.create_thread behind POST /api/v1/chat, /api/v1/chats,
\* /api/chats and /api/conversations (only /api/v1/chats passes a title)
CreateThread(uid, title, t) ==
    IF ThreadLimitHit(threads, users, uid)
    THEN /\ last' = PlanLimitChats("create_thread", uid, 402)
         /\ Unchanged
    ELSE /\ threads' = threads @@ (nextId :> NewThread(uid, title, t, <<>>))
         /\ nextId' = nextId + 1
         /\ now' = t
         /\ last' = Report("create_thread", uid, nextId, "ok", 201, "", 0, <<>>)
         /\ UNCHANGED <<users, sessions>>

\* ChatService.create_thread_with_first_user_message
CreateThreadWithFirstUserMessage(uid, message, t) ==
    IF ThreadLimitHit(threads, users, uid)
    THEN /\ last' = PlanLimitChats("create_thread_with_first_user_message", uid, 402)
         /\ Unchanged
    ELSE IF SessionBegin(AutobegunByQuery) = "InvalidRequestError"
    THEN /\ last' = Report("create_thread_with_first_user_message", uid, 0,
                            "InvalidRequestError", 500, "", 0, <<>>)
         /\ Unchanged
    ELSE /\ threads' = threads @@
                (nextId :> NewThread(uid, TitleFromFirstUserMessage(message), t,
                                     <<Msg("user", message, t, FALSE)>>))
         /\ nextId' = nextId + 1
         /\ now' = t
         /\ last' = Report("create_thread_with_first_user_message", uid, nextId,
                            "ok", 200, "", 0, <<>>)
         /\ UNCHANGED <<users, sessions>>

\* ChatService.get_user_threads (GET /api/v1/chat, /api/v1/chats, /api/chats,
\* /api/conversations)
GetUserThreads(uid, rev) ==
    /\ last' = Report("get_user_threads", uid, 0, "ok", 200, "", 0,
                       UserThreads(threads, uid, rev))
    /\ Unchanged

\* GET /api/v1/chat/{id} and GET /api/v1/chats/{id}
GetThread(uid, tid) ==
    /\ last' = IF Owns(threads, tid, uid)
                THEN Report("get_thread", uid, tid, "ok", 200, "", 0, <<>>)
                ELSE Report("get_thread", uid, tid, "None", 404, "", 0, <<>>)
    /\ Unchanged

\* the status a message-list or message-append handler gives before it
\* reaches the service: _get_conversation_or_404_403 on "conversations"
AccessStatus(path, thr, tid, uid) ==
    IF path = "conversations"
    THEN IF ~ExistsAny(thr, tid) THEN 404
         ELSE IF thr[tid].user_id # uid THEN 403
         ELSE 0
    ELSE 0

\* GET .../{id}/messages on "chats" (/api/v1/chats, /api/chats) and on
\* "conversations"
GetThreadMessages(path, uid, tid, rev) ==
    /\ last' =
          IF AccessStatus(path, threads, tid, uid) # 0
          THEN Report("get_thread_messages", uid, tid, "HTTPException",
                      AccessStatus(path, threads, tid, uid), "", 0, <<>>)
          ELSE IF ~Owns(threads, tid, uid)
          THEN Report("get_thread_messages", uid, tid, "None", 404, "", 0, <<>>)
          ELSE Report("get_thread_messages", uid, tid, "ok", 200, "", 0,
                      OrderByCreatedAt(threads[tid].messages, rev))
    /\ Unchanged

\* add_message with the rows counted after the insert has been committed
AddMessageCountsAfterInsert(path, uid, tid, role, content, t) ==
    LET r == SvcAddMessage(threads, users, tid, uid, role, content, t)
    IN  IF AccessStatus(path, threads, tid, uid) # 0
        THEN /\ last' = Report("add_message", uid, tid, "HTTPException",
                                AccessStatus(path, threads, tid, uid), "", 0, <<>>)
             /\ Unchanged
        ELSE IF r.ret = "None"
        THEN /\ last' = Report("add_message", uid, tid, "None", 404, "", 0, <<>>)
             /\ Unchanged
        ELSE IF r.ret = "PlanLimit"
        THEN /\ threads' = [threads EXCEPT ![tid] =
                              [@ EXCEPT !.messages = Append(@, Msg(role, content, t, FALSE)),
                                        !.updated_at = t]]
             /\ now' = t
             /\ last' = PlanLimitMessages("add_message", uid, tid)
             /\ UNCHANGED <<users, nextId, sessions>>
        ELSE /\ threads' = r.thr
             /\ now' = t
             /\ last' = Report("add_message", uid, tid, "ok", 201, "", 0, <<>>)
             /\ UNCHANGED <<users, nextId, sessions>>

\* ChatService.add_message behind POST .../{id}/messages on "chats" and on
\* "conversations"
AddMessage(path, uid, tid, role, content, t) ==
    LET r == SvcAddMessage(threads, users, tid, uid, role, content, t)
    IN  IF AccessStatus(path, threads, tid, uid) # 0
        THEN /\ last' = Report("add_message", uid, tid, "HTTPException",
                                AccessStatus(path, threads, tid, uid), "", 0, <<>>)
             /\ Unchanged
        ELSE IF r.ret = "None"
        THEN /\ last' = Report("add_message", uid, tid, "None", 404, "", 0, <<>>)
             /\ Unchanged
        ELSE IF r.ret = "PlanLimit"
        THEN /\ last' = PlanLimitMessages("add_message", uid, tid)
             /\ Unchanged
        ELSE /\ threads' = r.thr
             /\ now' = t
             /\ last' = Report("add_message", uid, tid, "ok", 201, "", 0, <<>>)
             /\ UNCHANGED <<users, nextId, sessions>>

\* ChatService.add_image_message: on "chats" behind POST .../messages/image,
\* which admits the roles user and assistant only; on "service" called as is
AddImageMessage(path, uid, tid, role, content, t) ==
    LET r == SvcAddImageMessage(threads, users, tid, uid, role, content, t)
    IN  IF path = "chats" /\ role \notin {"user", "assistant"}
        THEN /\ last' = Report("add_image_message", uid, tid, "HTTPException", 422, "", 0, <<>>)
             /\ Unchanged
        ELSE IF r.ret = "None"
        THEN /\ last' = Report("add_image_message", uid, tid, "None",
                                IF path = "chats" THEN 404 ELSE 0, "", 0, <<>>)
             /\ Unchanged
        ELSE IF r.ret = "PlanLimit"
        THEN /\ last' = PlanLimitMessages("add_image_message", uid, tid)
             /\ Unchanged
        ELSE /\ threads' = r.thr
             /\ now' = t
             /\ last' = Report("add_image_message", uid, tid, "ok",
                                IF path = "chats" THEN 201 ELSE 0, "", 0, <<>>)
             /\ UNCHANGED <<users, nextId, sessions>>

\* ChatService.update_thread behind PATCH /api/v1/chats/{id}: `hasTitle` is
\* "title" in data.model_fields_set (an explicit null included)
UpdateThread(uid, tid, hasTitle, title, t) ==
    IF ~Owns(threads, tid, uid)
    THEN /\ last' = Report("update_thread", uid, tid, "None", 404, "", 0, <<>>)
         /\ Unchanged
    ELSE IF hasTitle /\ title # threads[tid].title
    THEN /\ threads' = [threads EXCEPT ![tid] = [@ EXCEPT !.title = title, !.updated_at = t]]
         /\ now' = t
         /\ last' = Report("update_thread", uid, tid, "ok", 200, "", 0, <<>>)
         /\ UNCHANGED <<users, nextId, sessions>>
    ELSE /\ last' = Report("update_thread", uid, tid, "ok", 200, "", 0, <<>>)
         /\ Unchanged

\* PUT /api/v1/chat/{id}: the title is assigned on the loaded row and reaches
\* the database only with the commit of replace_messages
UpdateChat(uid, tid, title, hasMessages, msgs, t) ==
    IF ~Owns(threads, tid, uid)
    THEN /\ last' = Report("update_chat", uid, tid, "None", 404, "", 0, <<>>)
         /\ Unchanged
    ELSE IF hasMessages
    THEN /\ threads' =
               [SvcReplaceMessages(threads, tid, uid, msgs, t).thr EXCEPT ![tid] =
                  [@ EXCEPT !.title = IF title # None THEN title ELSE @]]
         /\ now' = t
         /\ last' = Report("update_chat", uid, tid, "ok", 200, "", 0, <<>>)
         /\ UNCHANGED <<users, nextId, sessions>>
    ELSE /\ last' = Report("update_chat", uid, tid, "ok", 200, "", 0, <<>>)
         /\ Unchanged

\* ChatService.replace_messages called as is: it returns db_thread.messages,
\* the new rows read back ORDER BY created_at; the response keeps the list
\* given and the list returned
ReplaceMessages(uid, tid, msgs, t, rev) ==
    LET r == SvcReplaceMessages(threads, tid, uid, msgs, t)
    IN  IF r.ret = "None"
        THEN /\ last' = Report("replace_messages", uid, tid, "None", 0, "", 0, <<>>)
             /\ Unchanged
        ELSE /\ threads' = r.thr
             /\ now' = t
             /\ last' = Report("replace_messages", uid, tid, "ok", 0, "", 0,
                                [given |-> msgs,
                                 returned |-> OrderByCreatedAt(r.thr[tid].messages, rev)])
             /\ UNCHANGED <<users, nextId, sessions>>

\* ChatService.delete_thread behind DELETE /api/v1/chat/{id} and
\* DELETE /api/v1/chats/{id}; the thread's messages go with it
DeleteThread(uid, tid) ==
    IF ~Owns(threads, tid, uid)
    THEN /\ last' = Report("delete_thread", uid, tid, "False", 404, "", 0, <<>>)
         /\ Unchanged
    ELSE /\ threads' = [i \in DOMAIN threads \ {tid} |-> threads[i]]
         /\ last' = Report("delete_thread", uid, tid, "True", 204, "", 0, <<>>)
         /\ UNCHANGED <<users, nextId, now, sessions>>

\* ChatService.get_context_messages, as generate_assistant_reply calls it
GetContextMessages(uid, tid, rev) ==
    /\ last' = Report("get_context_messages", uid, tid, "ok", 0, "", 0,
                       ContextMessages(threads, users, tid, uid, rev))
    /\ Unchanged

\* the two appends of a send without the try/except around the second: its
\* 402 is the answer of the request
SendIntoRaisesLimit(op, uid, tid, thr1, nid, t1, t2, rev) ==
    LET context == ContextMessages(thr1, users, tid, uid, rev)
        r2 == SvcAddMessage(thr1, users, tid, uid, "assistant", TxtReply, t2)
    IN  /\ threads' = r2.thr
        /\ now' = IF r2.ret = "ok" THEN t2 ELSE IF thr1 # threads THEN t1 ELSE now
        /\ last' = IF r2.ret = "PlanLimit"
                   THEN [PlanLimitMessages(op, uid, tid) EXCEPT !.ret = "HTTPException"]
                   ELSE Report(op, uid, tid, "ok", 200, "", 0, context)
        /\ nextId' = nid
        /\ UNCHANGED <<users, sessions>>

\* the two appends of a send once the user message has a thread: the reply is
\* generated from the context read after the first append; a 402 of the
\* second append (and, in chat_send, a None of either) is passed over
SendInto(op, uid, tid, thr1, nid, t1, t2, rev) ==
    LET context == ContextMessages(thr1, users, tid, uid, rev)
        r2 == SvcAddMessage(thr1, users, tid, uid, "assistant", TxtReply, t2)
    IN  /\ threads' = r2.thr
        /\ now' = IF r2.ret = "ok" THEN t2 ELSE IF thr1 # threads THEN t1 ELSE now
        /\ last' = Report(op, uid, tid, "ok", 200, "", 0, context)
        /\ nextId' = nid
        /\ UNCHANGED <<users, sessions>>

\* POST /api/v1/chat/message; chat_id 0 stands for None
SendMessage(uid, chat_id, message, t1, t2, rev) ==
    IF chat_id # 0
    THEN IF ~Owns(threads, chat_id, uid)
         THEN /\ last' = Report("send_message", uid, chat_id, "HTTPException", 404, "", 0, <<>>)
              /\ Unchanged
         ELSE LET r1 == SvcAddMessage(threads, users, chat_id, uid, "user", message, t1)
              IN  IF r1.ret = "PlanLimit"
                  THEN /\ last' = [PlanLimitMessages("send_message", uid, chat_id) EXCEPT !.ret = "HTTPException"]
                       /\ Unchanged
                  ELSE SendInto("send_message", uid, chat_id, r1.thr, nextId, t1, t2, rev)
    ELSE IF ThreadLimitHit(threads, users, uid)
    THEN /\ last' = [PlanLimitChats("send_message", uid, 402) EXCEPT !.ret = "HTTPException"]
         /\ Unchanged
    ELSE IF SessionBegin(AutobegunByQuery) = "InvalidRequestError"
    THEN /\ last' = Report("send_message", uid, 0, "InvalidRequestError", 500, "", 0, <<>>)
         /\ Unchanged
    ELSE SendInto("send_message", uid, nextId,
                  threads @@ (nextId :> NewThread(uid, TitleFromFirstUserMessage(message), t1,
                                                  <<Msg("user", message, t1, FALSE)>>)),
                  nextId + 1, t1, t2, rev)

\* POST /api/v1/chats/send; thread_id 0 stands for None
ChatSend(uid, thread_id, message, t1, t2, rev) ==
    IF thread_id # 0
    THEN LET r1 == SvcAddMessage(threads, users, thread_id, uid, "user", message, t1)
         IN  IF r1.ret = "PlanLimit"
             THEN /\ last' = [PlanLimitMessages("chat_send", uid, thread_id) EXCEPT !.ret = "HTTPException"]
                  /\ Unchanged
             ELSE SendInto("chat_send", uid, thread_id, r1.thr, nextId, t1, t2, rev)
    ELSE IF ThreadLimitHit(threads, users, uid)
    THEN /\ last' = [PlanLimitChats("chat_send", uid, 402) EXCEPT !.ret = "HTTPException"]
         /\ Unchanged
    ELSE IF SessionBegin(AutobegunByQuery) = "InvalidRequestError"
    THEN /\ last' = Report("chat_send", uid, 0, "InvalidRequestError", 500, "", 0, <<>>)
         /\ Unchanged
    ELSE SendInto("chat_send", uid, nextId,
                  threads @@ (nextId :> NewThread(uid, TitleFromFirstUserMessage(message), t1,
                                                  <<Msg("user", message, t1, FALSE)>>)),
                  nextId + 1, t1, t2, rev)

\* what the reply's add_message can raise besides the 402 of the limit
ReplyFailures == {"OperationalError"}

\* send_message and chat_send into thread `tid` when the user message has
\* been committed and the reply's add_message raises `exc`: the except clause
\* re-raises what is no HTTPException of status 402
SendReplyRaises(op, uid, tid, message, t1, exc) ==
    LET r1 == SvcAddMessage(threads, users, tid, uid, "user", message, t1)
    IN  /\ op \in {"send_message", "chat_send"}
        /\ r1.ret = "ok"
        /\ exc \in ReplyFailures
        /\ threads' = r1.thr
        /\ now' = t1
        /\ last' = Report(op, uid, tid, exc, 500, "", 0, <<>>)
        /\ UNCHANGED <<users, nextId, sessions>>

\* ---------------------------------------------------------------- inputs
TxtHi == <<"h","i">>
TxtBlank == <<" "," ">>
TxtRenamed == <<"r","e">>

\* the values now() can take for the next statement
Times == {t \in {now, now + 1} : t <= MaxClock}

RECURSIVE SumRows(_, _)
SumRows(thr, ids) ==
    IF ids = {} THEN 0
    ELSE LET i == CHOOSE j \in ids : TRUE
         IN  Len(thr[i].messages) + SumRows(thr, ids \ {i})

\* all chat_messages rows
Rows == SumRows(threads, DOMAIN threads)

InitStore ==
    /\ users = [u \in Users |-> IF u = "a" THEN FreshUser ELSE PremiumUser]
    /\ threads = NoThreads
    /\ nextId = 1
    /\ now = 0
    /\ last = NoLast
    /\ sessions = NoSessions

\* ------------------------------------------------------------ the title run
\* One user, "a", writing to a thread of its own: every way a title is given,
\* kept or changed. The user has one thread at a time and creates the next
\* after deleting it. Every statement reads the same value of now().
TitleContents == {TxtHi, TxtBlank}
TitleImageContents == {<<>>, TxtBlank, TxtHi}
CreateTitles == {None, <<>>, TxtBlank}
RenameTitles == {None, TxtRenamed}
MessageLists == {<<>>, <<[role |-> "user", content |-> TxtHi]>>}
SavedLists ==
    {<<>>, <<[role |-> "assistant", content |-> TxtRenamed]>>,
     <<[role |-> "user", content |-> TxtRenamed], [role |-> "assistant", content |-> TxtHi]>>}

\* the thread is one of "a" with room for `n` more rows
RoomT(tid, n) == Owns(threads, tid, "a") /\ Rows + n <= MaxTitleMsgs

NextTitle ==
    \/ \E title \in CreateTitles :
          /\ nextId <= MaxTitleIds /\ ThreadCount(threads, "a") = 0
          /\ CreateThread("a", title, now)
    \/ \E tid \in 1..MaxTitleIds, role \in {"user", "assistant"}, content \in TitleContents :
          /\ RoomT(tid, 1)
          /\ role = "assistant" => content = TxtHi
          /\ AddMessage("chats", "a", tid, role, content, now)
    \/ \E tid \in 1..MaxTitleIds, content \in TitleImageContents :
          RoomT(tid, 1) /\ AddImageMessage("chats", "a", tid, "user", content, now)
    \/ \E tid \in 1..MaxTitleIds, hasTitle \in BOOLEAN, title \in RenameTitles :
          RoomT(tid, 0) /\ UpdateThread("a", tid, hasTitle, title, now)
    \/ \E tid \in 1..MaxTitleIds, title \in RenameTitles, hasMessages \in BOOLEAN,
          msgs \in MessageLists :
          /\ ~hasMessages => msgs = <<>>
          /\ RoomT(tid, Len(msgs) - Len(threads[tid].messages))
          /\ UpdateChat("a", tid, title, hasMessages, msgs, now)
    \/ \E tid \in 1..MaxTitleIds, msgs \in SavedLists, rev \in BOOLEAN :
          /\ RoomT(tid, Len(msgs) - Len(threads[tid].messages))
          /\ ReplaceMessages("a", tid, msgs, now, rev)
    \/ \E tid \in 1..MaxTitleIds : RoomT(tid, 0) /\ DeleteThread("a", tid)
    \/ \E tid \in 0..MaxTitleIds :
          (tid # 0 => RoomT(tid, 2)) /\ SendMessage("a", tid, TxtHi, now, now, FALSE)
    \/ \E tid \in 0..MaxTitleIds :
          (tid # 0 => RoomT(tid, 2)) /\ ChatSend("a", tid, TxtHi, now, now, FALSE)

SpecTitle == InitStore /\ [][NextTitle]_vars

\* -------------------------------------------------------- the ownership run
\* Two users; each creates, fills and deletes threads of its own, and each
\* aims every operation that takes a thread id at ids it does not own: the
\* other user's threads and ids no thread has.
ProbeIds == 1..(MaxIds + 1)

\* `uid` does not own `tid`
Probe(uid, tid) == ~Owns(threads, tid, uid)

Init == InitStore

Next ==
    \/ \E uid \in Users, t \in Times :
          nextId <= MaxIds /\ CreateThread(uid, None, t)
    \/ \E uid \in Users, tid \in ProbeIds, path \in {"chats", "conversations"}, t \in Times :
          /\ Owns(threads, tid, uid) => Rows < MaxMsgs
          /\ AddMessage(path, uid, tid, "user", TxtHi, t)
    \/ \E uid \in Users, tid \in ProbeIds : DeleteThread(uid, tid)
    \/ \E uid \in Users, rev \in BOOLEAN : GetUserThreads(uid, rev)
    \/ \E uid \in Users, tid \in ProbeIds : GetThread(uid, tid)
    \/ \E uid \in Users, tid \in ProbeIds, path \in {"chats", "conversations"}, rev \in BOOLEAN :
          GetThreadMessages(path, uid, tid, rev)
    \/ \E uid \in Users, tid \in ProbeIds, t \in Times :
          Probe(uid, tid) /\ AddImageMessage("chats", uid, tid, "user", TxtHi, t)
    \/ \E uid \in Users, tid \in ProbeIds, t \in Times :
          Probe(uid, tid) /\ UpdateThread(uid, tid, TRUE, TxtRenamed, t)
    \/ \E uid \in Users, tid \in ProbeIds, t \in Times :
          Probe(uid, tid) /\ UpdateChat(uid, tid, TxtRenamed, TRUE, <<>>, t)
    \/ \E uid \in Users, tid \in ProbeIds, t \in Times :
          Probe(uid, tid) /\ SendMessage(uid, tid, TxtHi, t, t, FALSE)
    \/ \E uid \in Users, tid \in ProbeIds, t \in Times, rev \in BOOLEAN :
          Probe(uid, tid) /\ ChatSend(uid, tid, TxtHi, t, t, rev)
    \/ \E uid \in Users, tid \in ProbeIds, rev \in BOOLEAN :
          GetContextMessages(uid, tid, rev)

Spec == Init /\ [][Next]_vars

\* ------------------------------------------------------- the thread-limit run
\* "a" is base-effective, "b" premium-effective; both create and delete threads.
BaseUsers == {FreshUser, LapsedUser}
PremiumUsers == {PremiumUser, LegacyPremiumUser}

InitThreads ==
    /\ users \in {u \in [Users -> BaseUsers \cup PremiumUsers] :
                     u["a"] \in BaseUsers /\ u["b"] \in PremiumUsers}
    /\ threads = NoThreads
    /\ nextId = 1
    /\ now = 0
    /\ last = NoLast
    /\ sessions = NoSessions

NextThreads ==
    \/ \E uid \in Users : nextId <= MaxLimitIds /\ CreateThread(uid, None, now)
    \/ \E uid \in Users :
          nextId <= MaxLimitIds /\ CreateThreadWithFirstUserMessage(uid, TxtHi, now)
    \/ \E uid \in Users : nextId <= MaxLimitIds /\ SendMessage(uid, 0, TxtHi, now, now, FALSE)
    \/ \E uid \in Users : nextId <= MaxLimitIds /\ ChatSend(uid, 0, TxtHi, now, now, FALSE)
    \/ \E uid \in Users, tid \in 1..MaxLimitIds :
          Owns(threads, tid, uid) /\ DeleteThread(uid, tid)

SpecThreads == InitThreads /\ [][NextThreads]_vars

\* ------------------------------------------------------- the long-thread run
\* One thread, id 1, of user "a", who is base-effective in one initial state
\* and premium-effective in the other ("b" is the opposite). Rows after the
\* first alternate user/assistant; a system row may only open the thread;
\* image rows open it or arrive near its end. The clock ticks every
\* TickEvery rows.
InitLong ==
    /\ users \in {[u \in Users |-> IF u = "a" THEN FreshUser ELSE PremiumUser],
                  [u \in Users |-> IF u = "a" THEN PremiumUser ELSE FreshUser]}
    /\ threads = (1 :> NewThread("a", None, 0, <<>>))
    /\ nextId = 2
    /\ now = 0
    /\ last = NoLast
    /\ sessions = NoSessions

LongLen == Len(threads[1].messages)

\* now() for the next row
LongTime == IF LongLen > 0 /\ LongLen % TickEvery = 0 THEN now + 1 ELSE now

\* the role the next row has in an alternating conversation
Turn == IF LongLen % 2 = 0 THEN "user" ELSE "assistant"

NearEnd == LongLen + 3 >= MaxLongLen

NextLong ==
    \/ \E role \in {"user", "assistant"} :
          /\ LongLen < MaxLongLen
          /\ LongLen > 0 => role = Turn
          /\ AddMessage("chats", "a", 1, role, TxtHi, LongTime)
    \/ \E role \in {"user", "system"}, path \in {"chats", "service"} :
          /\ LongLen < MaxLongLen
          /\ LongLen = 0 \/ (NearEnd /\ role = "user")
          /\ AddImageMessage(path, "a", 1, role, TxtHi, LongTime)
    \/ \E uid \in Users, rev \in BOOLEAN : GetContextMessages(uid, 1, rev)
    \/ \E rev \in BOOLEAN : GetThreadMessages("chats", "a", 1, rev)
    \/ /\ NearEnd /\ LongLen + 2 <= MaxLongLen
       /\ SendMessage("a", 1, TxtHi, LongTime, LongTime, FALSE)
    \/ \E uid \in Users, rev \in BOOLEAN :
          /\ uid = "a" => (NearEnd /\ LongLen + 2 <= MaxLongLen)
          /\ ChatSend(uid, 1, TxtHi, LongTime, LongTime, rev)
    \/ \E op \in {"send_message", "chat_send"}, exc \in ReplyFailures :
          /\ NearEnd /\ LongLen + 1 <= MaxLongLen
          /\ SendReplyRaises(op, "a", 1, TxtHi, LongTime, exc)

SpecLong == InitLong /\ [][NextLong]_vars

\* ----------------------------------------------------- the effective-plan run
\* _effective_plan on user records drawn from every combination of stored
\* values, None and odd spellings included.
TxtPremiumSpaced == <<" ","P","r","e","m","i","u","m"," ">>
TxtPro == <<"p","r","o">>
TxtActiveSpaced == <<" ","A","C","T","I","V","E","\n">>
TxtpremiumTier == <<"p","r","e","m","i","u","m"," ">>

PlanValues == {None, <<>>, TxtBase, TxtPremium, TxtPremiumSpaced, TxtPro}
StatusValues == {None, <<>>, TxtActive, TxtPastDue, TxtTrialing, TxtCanceled, TxtActiveSpaced}
TierValues == {None, TxtBASE, TxtPREMIUM, TxtpremiumTier}
SubscriptionIds == {None, <<>>, TxtSub}

InitPlan ==
    /\ users \in [Users -> [plan : PlanValues, plan_status : StatusValues,
                            subscription_tier : TierValues,
                            stripe_customer_id : {None},
                            stripe_subscription_id : SubscriptionIds,
                            plan_renews_at : {None}]]
    /\ users["b"] = FreshUser
    /\ threads = NoThreads
    /\ nextId = 1
    /\ now = 0
    /\ last = NoLast
    /\ sessions = NoSessions

\* self._effective_plan(user) followed by get_limits_for_plan(plan)
EffectivePlanOf(uid) ==
    /\ last' = Report("effective_plan", uid, 0, EffectivePlan(users[uid]), 0, "",
                       GetLimitsForPlan(EffectivePlan(users[uid])).max_threads, <<>>)
    /\ Unchanged

NextPlan == \E uid \in Users : EffectivePlanOf(uid)

SpecPlan == InitPlan /\ [][NextPlan]_vars

\* ------------------------------------------------------ the concurrent run
\* Requests served at the same time, each by its own Session of get_db(), on
\* thread 1 of the base user "a". add_message reads (get_thread, the count,
\* the first user row) and then writes at commit; nothing locks the thread
\* between the reads and the commit, and under PostgreSQL's READ COMMITTED
\* every statement sees what has been committed when it runs.
\* sessions: request -> [pc, uid, tid, role, content, title, dirty,
\* message_count, ret], title being db_thread.title as the Session holds it.
SessionIds == 1..MaxSessions

\* a thread of n rows, user and assistant in turn, written before the run
Filler(n) ==
    [i \in 1..n |-> IF i % 2 = 1 THEN Msg("user", TxtHi, 0, FALSE)
                                 ELSE Msg("assistant", TxtReply, 0, FALSE)]

FilledThread(n) ==
    NewThread("a", IF n = 0 THEN None ELSE TitleFromFirstUserMessage(TxtHi), 0, Filler(n))

InitRace ==
    /\ users = [u \in Users |-> IF u = "a" THEN FreshUser ELSE PremiumUser]
    /\ threads \in {(1 :> FilledThread(n)) : n \in {0, BaseMaxMessages - 1}}
    /\ nextId = 2
    /\ now = 0
    /\ last = NoLast
    /\ sessions = NoSessions

\* add_message, lines 244-246: db_thread = self.get_thread(...), the first
\* statement of the request
AddMessageGetThread(r, uid, tid, role, content) ==
    /\ r \notin DOMAIN sessions
    /\ \A q \in SessionIds : q < r => q \in DOMAIN sessions
    /\ sessions' = sessions @@
          (r :> [pc |-> IF Owns(threads, tid, uid) THEN "count" ELSE "done",
                 uid |-> uid, tid |-> tid, role |-> role, content |-> content,
                 title |-> IF Owns(threads, tid, uid) THEN threads[tid].title ELSE None,
                 dirty |-> FALSE, message_count |-> 0,
                 ret |-> IF Owns(threads, tid, uid) THEN "" ELSE "None"])
    /\ last' = IF Owns(threads, tid, uid) THEN last
               ELSE Report("add_message", uid, tid, "None", 404, "", 0, <<>>)
    /\ UNCHANGED <<users, threads, nextId, now>>

\* add_message, lines 249-268: the user, the limits and the count query
AddMessageCount(r) ==
    /\ r \in DOMAIN sessions
    /\ sessions[r].pc = "count"
    /\ LET s == sessions[r]
           hit == MessageLimitHit(threads, users, s.tid, s.uid)
       IN  /\ sessions' = [sessions EXCEPT ![r] =
                 [@ EXCEPT !.pc = IF hit THEN "done" ELSE "title",
                           !.message_count = CountedMessages(threads[s.tid].messages),
                           !.ret = IF hit THEN "PlanLimit" ELSE ""]]
           /\ last' = IF hit THEN PlanLimitMessages("add_message", s.uid, s.tid) ELSE last
    /\ UNCHANGED <<users, threads, nextId, now>>

\* add_message, lines 274-282: the title rule, on the title the Session
\* loaded in get_thread and the user rows committed by now
AddMessageTitle(r) ==
    /\ r \in DOMAIN sessions
    /\ sessions[r].pc = "title"
    /\ LET s == sessions[r]
           title == TitleAfterAddMessage(
                        [title |-> s.title, messages |-> threads[s.tid].messages],
                        s.role, s.content)
       IN  sessions' = [sessions EXCEPT ![r] =
               [@ EXCEPT !.pc = "commit", !.title = title, !.dirty = (title # s.title)]]
    /\ UNCHANGED <<users, threads, nextId, now, last>>

\* add_message, lines 284-294: the INSERT of the row and the UPDATE of the
\* thread (updated_at, and title when the Session changed it), committed
AddMessageCommit(r) ==
    /\ r \in DOMAIN sessions
    /\ sessions[r].pc = "commit"
    /\ LET s == sessions[r]
       IN  /\ threads' = [threads EXCEPT ![s.tid] =
                 [@ EXCEPT !.title = IF s.dirty THEN s.title ELSE @,
                           !.messages = Append(@, Msg(s.role, s.content, now, FALSE)),
                           !.updated_at = now]]
           /\ sessions' = [sessions EXCEPT ![r] = [@ EXCEPT !.pc = "done", !.ret = "ok"]]
           /\ last' = Report("add_message", s.uid, s.tid, "ok", 201, "", 0, <<>>)
    /\ UNCHANGED <<users, nextId, now>>

NextRace ==
    \/ \E r \in SessionIds, role \in {"user", "assistant"}, content \in {TxtHi, TxtRenamed} :
          AddMessageGetThread(r, "a", 1, role, content)
    \/ \E r \in SessionIds : AddMessageCount(r)
    \/ \E r \in SessionIds : AddMessageTitle(r)
    \/ \E r \in SessionIds : AddMessageCommit(r)

SpecRace == InitRace /\ [][NextRace]_vars

\* ---------------------------------------------------------------- billing
\* Stripe's subscription statuses, event types and ids, as text
TxtUnpaid == <<"u","n","p","a","i","d">>
TxtIncomplete == <<"i","n","c","o","m","p","l","e","t","e">>
TxtIncompleteExpired ==
  <<"i","n","c","o","m","p","l","e","t","e","_","e","x","p","i","r","e",
    "d">>
TxtPaused == <<"p","a","u","s","e","d">>
TxtCheckoutSessionCompleted ==
  <<"c","h","e","c","k","o","u","t",".","s","e","s","s","i","o","n",".",
    "c","o","m","p","l","e","t","e","d">>
TxtSubscriptionCreated ==
  <<"c","u","s","t","o","m","e","r",".","s","u","b","s","c","r","i","p",
    "t","i","o","n",".","c","r","e","a","t","e","d">>
TxtSubscriptionUpdated ==
  <<"c","u","s","t","o","m","e","r",".","s","u","b","s","c","r","i","p",
    "t","i","o","n",".","u","p","d","a","t","e","d">>
TxtSubscriptionDeleted ==
  <<"c","u","s","t","o","m","e","r",".","s","u","b","s","c","r","i","p",
    "t","i","o","n",".","d","e","l","e","t","e","d">>
TxtInvoicePaid == <<"i","n","v","o","i","c","e",".","p","a","i","d">>
TxtInvoicePaymentFailed ==
  <<"i","n","v","o","i","c","e",".","p","a","y","m","e","n","t","_","f",
    "a","i","l","e","d">>
TxtInvoiceCreated == <<"i","n","v","o","i","c","e",".","c","r","e","a","t","e","d">>
TxtSub2 == <<"s","u","b","_","2">>
TxtCus2 == <<"c","u","s","_","2">>
TxtCusExt == <<"c","u","s","_","9">>
TxtSoon == <<"s","o","o","n">>
TxtWhsec == <<"w","h","s","e","c">>
TxtOtherSecret == <<"o","t","h","e","r">>

\* an integer of a JSON body or a header, and a datetime by its unix seconds
Num(n) == <<"int", n>>

\* Python truthiness of an Optional[str] or Optional[int]
Truthy(x) == x # None /\ x # <<>> /\ x # Num(0)

\* _dt_from_unix
DtFromUnix(ts) == IF ~Truthy(ts) THEN None ELSE ts

\* _map_plan_status
MapPlanStatus(stripe_status) ==
    IF ~Truthy(stripe_status) THEN None
    ELSE LET s == Lower(stripe_status)
         IN  IF s \in {TxtActive, TxtTrialing} THEN TxtActive
             ELSE IF s \in {TxtPastDue, TxtUnpaid, TxtIncomplete, TxtIncompleteExpired}
             THEN TxtPastDue
             ELSE IF s \in {TxtCanceled} THEN TxtCanceled
             ELSE TxtPastDue

\* _apply_premium with the status the user has taking precedence:
\* `user.plan_status or status or "active"`
ApplyPremiumKeepsStatus(user, status, renews_at) ==
    [user EXCEPT !.plan = TxtPremium,
                 !.plan_status = OrElse(user.plan_status, OrElse(status, TxtActive)),
                 !.plan_renews_at = renews_at,
                 !.subscription_tier = TxtPREMIUM]

\* _apply_premium without the legacy tier kept in sync
ApplyPremiumKeepsTier(user, status, renews_at) ==
    [user EXCEPT !.plan = TxtPremium,
                 !.plan_status = OrElse(status, OrElse(user.plan_status, TxtActive)),
                 !.plan_renews_at = renews_at]

\* BillingService._apply_premium
ApplyPremium(user, status, renews_at) ==
    [user EXCEPT !.plan = TxtPremium,
                 !.plan_status = OrElse(status, OrElse(user.plan_status, TxtActive)),
                 !.plan_renews_at = renews_at,
                 !.subscription_tier = TxtPREMIUM]

\* _apply_base leaving the subscription id in place
ApplyBaseKeepsSubscription(user, status) ==
    [user EXCEPT !.plan = TxtBase,
                 !.plan_status = OrElse(status, TxtActive),
                 !.plan_renews_at = None,
                 !.subscription_tier = TxtBASE]

\* BillingService._apply_base
ApplyBase(user, status) ==
    [user EXCEPT !.plan = TxtBase,
                 !.plan_status = OrElse(status, TxtActive),
                 !.plan_renews_at = None,
                 !.stripe_subscription_id = None,
                 !.subscription_tier = TxtBASE]

\* the subscription id written whether or not the event carries one
AttachSubscriptionAlways(user, sub_id) ==
    [user EXCEPT !.stripe_subscription_id = sub_id]

\* the subscription id written only for a user who is premium already
AttachSubscriptionIfPremium(user, sub_id) ==
    IF Truthy(sub_id) /\ user.plan = TxtPremium
    THEN [user EXCEPT !.stripe_subscription_id = sub_id] ELSE user

\* handle_event: `if sub_id: user.stripe_subscription_id = sub_id`
AttachSubscription(user, sub_id) ==
    IF Truthy(sub_id) THEN [user EXCEPT !.stripe_subscription_id = sub_id] ELSE user

\* handle_event: `if customer_id and not user.stripe_customer_id: ...`
AttachCustomer(user, customer_id) ==
    IF Truthy(customer_id) /\ ~Truthy(user.stripe_customer_id)
    THEN [user EXCEPT !.stripe_customer_id = customer_id] ELSE user

\* An event is the object of the webhook's JSON body, flattened:
\* type = event["type"], the rest the keys of event["data"]["object"]
\* (user_id is metadata["user_id"]); a key the body lacks is None.
Event(type, customer, user_id, client_reference_id, subscription, id, status, period_end) ==
    [type |-> type, customer |-> customer, user_id |-> user_id,
     client_reference_id |-> client_reference_id, subscription |-> subscription,
     id |-> id, status |-> status, current_period_end |-> period_end]

\* int(user_id): user ids are one-character numerals, whitespace around the
\* numeral is accepted, anything else raises ValueError (None here)
IntOf(text) == IF Len(Strip(text)) = 1 THEN <<Strip(text)[1]>> ELSE None

\* lookup that takes any user when nothing matches
FindUserOrAnyone(usr, e) ==
    LET by_customer == IF Truthy(e.customer)
                       THEN {u \in DOMAIN usr : usr[u].stripe_customer_id = e.customer}
                       ELSE {}
        user_id == OrElse(e.user_id, e.client_reference_id)
        by_id == IF Truthy(user_id) THEN {u \in DOMAIN usr : <<u>> = IntOf(user_id)} ELSE {}
    IN  IF by_customer # {} THEN by_customer
        ELSE IF by_id # {} THEN by_id ELSE DOMAIN usr

\* handle_event, lines 115-132: the users `.first()` can return, by customer
\* id first, then by metadata user_id or client_reference_id; {} for no user
FindUser(usr, e) ==
    LET by_customer == IF Truthy(e.customer)
                       THEN {u \in DOMAIN usr : usr[u].stripe_customer_id = e.customer}
                       ELSE {}
        user_id == OrElse(e.user_id, e.client_reference_id)
        by_id == IF Truthy(user_id) THEN {u \in DOMAIN usr : <<u>> = IntOf(user_id)} ELSE {}
    IN  IF by_customer # {} THEN by_customer ELSE by_id

\* handle_event, lines 111 and 134-178: the user row after the event
HandleEventOn(user, e) ==
    LET event_type == Strip(OrElse(e.type, <<>>))
    IN  IF event_type = TxtCheckoutSessionCompleted
        THEN LET u == AttachSubscription(AttachCustomer(user, e.customer), e.subscription)
             IN  ApplyPremium(u, TxtActive, u.plan_renews_at)
        ELSE IF event_type \in {TxtSubscriptionCreated, TxtSubscriptionUpdated}
        THEN LET sub_status == MapPlanStatus(e.status)
                 renews_at == DtFromUnix(e.current_period_end)
                 u == AttachCustomer(AttachSubscription(user, e.id), e.customer)
             IN  IF sub_status = TxtCanceled
                 THEN ApplyBase(u, TxtCanceled)
                 ELSE ApplyPremium(u, OrElse(sub_status, TxtActive), renews_at)
        ELSE IF event_type = TxtSubscriptionDeleted
        THEN ApplyBase(user, TxtCanceled)
        ELSE IF event_type = TxtInvoicePaid
        THEN LET u == AttachSubscription(user, e.subscription)
             IN  ApplyPremium(u, TxtActive, u.plan_renews_at)
        ELSE IF event_type = TxtInvoicePaymentFailed
        THEN ApplyPremium(user, TxtPastDue, user.plan_renews_at)
        ELSE user

\* BillingService.handle_event for the user `.first()` returned
HandleEvent(usr, e, u) == [usr EXCEPT ![u] = HandleEventOn(usr[u], e)]

\* ------------------------------------------------------- webhook signature
\* The Stripe-Signature header is the sequence of its comma-separated parts,
\* each [k, v] for "k=v"; a `t` part holds Num(n) or text that int() refuses;
\* a request without the header, or with an empty one, has no parts.
\* A request body is [json, event]: whether request.json() parses it, and
\* the event it parses to. HMAC-SHA256 is an injective function of the key
\* and the signed payload f"{timestamp}." + payload.
ToleranceSeconds == 300

Body(e) == [json |-> TRUE, event |-> e]

NotJson ==
    [json |-> FALSE, event |-> Event(None, None, None, None, None, None, None, None)]

Hmac(secret, timestamp, payload) == <<"hmac", secret, timestamp, payload>>

\* int(p.split("=", 1)[1])
IsNum(v) == Len(v) = 2 /\ v[1] = "int"

Part(k, v) == [k |-> k, v |-> v]

\* the loop of verify_stripe_signature over the parts: the last `t=` part
\* decides the timestamp, every `v1=` part adds a signature
RECURSIVE ParseHeader(_)
ParseHeader(parts) ==
    IF parts = <<>> THEN [timestamp |-> None, signatures |-> {}]
    ELSE LET before == ParseHeader(SubSeq(parts, 1, Len(parts) - 1))
             p == parts[Len(parts)]
         IN  IF p.k = "t"
             THEN [before EXCEPT !.timestamp = IF IsNum(p.v) THEN p.v ELSE None]
             ELSE IF p.k = "v1"
             THEN [before EXCEPT !.signatures = @ \cup {p.v}]
             ELSE before

Abs(n) == IF n < 0 THEN -n ELSE n

\* verify_stripe_signature without the tolerance test
VerifyWithoutTolerance(secret, payload, sig_header, wall) ==
    IF Len(sig_header) = 0 THEN FALSE
    ELSE LET h == ParseHeader(sig_header)
         IN  IF h.timestamp = None \/ h.signatures = {} THEN FALSE
             ELSE Hmac(secret, h.timestamp, payload) \in h.signatures

\* verify_stripe_signature, for a configured secret
VerifyStripeSignature(secret, payload, sig_header, wall) ==
    IF Len(sig_header) = 0 THEN FALSE
    ELSE LET h == ParseHeader(sig_header)
         IN  IF h.timestamp = None \/ h.signatures = {} THEN FALSE
             ELSE IF Abs(wall - h.timestamp[2]) > ToleranceSeconds THEN FALSE
             ELSE Hmac(secret, h.timestamp, payload) \in h.signatures

\* the request a webhook call answers to, kept with its response
WebhookCall(secret, sig_header, wall, payload) ==
    [secret |-> secret, sig_header |-> sig_header, wall |-> wall, payload |-> payload]

\* POST /api/v1/billing/webhook
StripeWebhook(secret, sig_header, wall, payload) ==
    LET call == WebhookCall(secret, sig_header, wall, payload)
    IN  IF ~Truthy(secret)
        THEN /\ last' = Report("stripe_webhook", "", 0, "StripeConfigError", 500, "", 0, call)
             /\ Unchanged
        ELSE IF ~VerifyStripeSignature(secret, payload, sig_header, wall)
        THEN /\ last' = Report("stripe_webhook", "", 0, "InvalidSignature", 400, "", 0, call)
             /\ Unchanged
        ELSE IF ~payload.json
        THEN /\ last' = Report("stripe_webhook", "", 0, "InvalidJSON", 400, "", 0, call)
             /\ Unchanged
        ELSE IF FindUser(users, payload.event) = {}
        THEN /\ last' = Report("stripe_webhook", "", 0, "ok", 200, "", 0, call)
             /\ Unchanged
        ELSE \E u \in FindUser(users, payload.event) :
                /\ users' = HandleEvent(users, payload.event, u)
                /\ last' = Report("stripe_webhook", u, 0, "ok", 200, "", 0, call)
                /\ UNCHANGED <<threads, nextId, now, sessions>>

\* int(ts) of _dt_from_unix refusing a current_period_end that is no numeral
DtFromUnixRaises(ts) == Truthy(ts) /\ ~IsNum(ts)

\* the event types whose branch of handle_event ends in a commit
CommittingTypes ==
    {TxtCheckoutSessionCompleted, TxtSubscriptionCreated, TxtSubscriptionUpdated,
     TxtSubscriptionDeleted, TxtInvoicePaid, TxtInvoicePaymentFailed}

\* where handle_event can raise on event `e`: in the lookup's query, in
\* _dt_from_unix (before the first assignment of the subscription branch), or
\* in the db.commit() that ends _apply_premium and _apply_base
FailurePoints(usr, e) ==
    LET event_type == Strip(OrElse(e.type, <<>>))
        queried == Truthy(e.customer) \/ Truthy(OrElse(e.user_id, e.client_reference_id))
    IN  (IF queried THEN {"query"} ELSE {})
        \cup (IF FindUser(usr, e) = {} \/ event_type \notin CommittingTypes THEN {}
              ELSE IF event_type \in {TxtSubscriptionCreated, TxtSubscriptionUpdated}
                      /\ DtFromUnixRaises(e.current_period_end)
              THEN {"dt_from_unix"}
              ELSE {"commit"})

\* the user object as the Session holds it when handle_event raises at `at`:
\* every assignment of the branch has been made when the commit is reached
StagedAt(user, e, at) == IF at = "commit" THEN HandleEventOn(user, e) ELSE user

\* a close that writes the Session's pending changes to the row
SessionCloseFlushes(committed, staged) == staged

\* get_db's db.close() after the handler raised: the transaction is rolled
\* back and the pending changes of the Session are dropped
SessionClose(committed, staged) == committed

\* POST /api/v1/billing/webhook with handle_event raising at `at`, for the
\* user `u` the lookup returned (if it got that far)
StripeWebhookFailing(secret, sig_header, wall, payload, u, at) ==
    /\ Truthy(secret)
    /\ VerifyStripeSignature(secret, payload, sig_header, wall)
    /\ payload.json
    /\ at \in FailurePoints(users, payload.event)
    /\ at # "query" => u \in FindUser(users, payload.event)
    /\ users' = [users EXCEPT ![u] = SessionClose(@, StagedAt(@, payload.event, at))]
    /\ last' = Report("stripe_webhook", IF at = "query" THEN "" ELSE u, 0,
                       "HTTPException", 500, at, 0,
                       WebhookCall(secret, sig_header, wall, payload))
    /\ UNCHANGED <<threads, nextId, now, sessions>>

\* the id Stripe gives the customer it creates for the user
CustomerIdOf(uid) == IF uid = "a" THEN TxtCus ELSE TxtCus2

\* BillingService.create_checkout_session: ensure_customer, then the
\* checkout session at Stripe
CreateCheckoutSession(uid) ==
    /\ users' = [users EXCEPT ![uid] = AttachCustomer(@, CustomerIdOf(uid))]
    /\ last' = Report("create_checkout_session", uid, 0, "ok", 200, "", 0, <<>>)
    /\ UNCHANGED <<threads, nextId, now, sessions>>

\* -------------------------------------------------------- the billing run
\* Webhooks Stripe signed, about two users. Stripe names a customer of the
\* application only once ensure_customer has created it; TxtCusExt is a
\* customer made outside the application.
WallClock == 1000

GoodHeader(payload) ==
    <<Part("t", Num(WallClock)), Part("v1", Hmac(TxtWhsec, Num(WallClock), payload))>>

ExternalStatuses ==
    {None, <<>>, TxtActive, TxtTrialing, TxtPastDue, TxtUnpaid, TxtIncomplete,
     TxtIncompleteExpired, TxtCanceled, TxtPaused, Upper(TxtActive), Upper(TxtCanceled)}

\* [customer, user_id, client_reference_id] of the events that name user "a"
LookupsA == {<<TxtCus, None, None>>, <<None, <<"a">>, None>>, <<TxtCusExt, <<"a">>, None>>}

\* ... that name user "a" or nobody in some other way
LookupsOther ==
    {<<TxtCus, <<"b">>, None>>, <<None, None, <<" ", "a">>>>, <<TxtCusExt, None, None>>,
     <<None, <<"z">>, None>>, <<None, <<"x", "y">>, None>>, <<None, None, None>>}

\* ... that name user "b"
LookupsB == {<<None, <<"b">>, None>>}

\* the events sent for lookup `k`, but for those of subscriptions
EventsFor(k) ==
    {Event(TxtCheckoutSessionCompleted, k[1], k[2], k[3], s, None, None, None) :
        s \in {None, TxtSub}}
    \cup {Event(TxtInvoicePaid, k[1], k[2], k[3], s, None, None, None) :
        s \in {None, TxtSub, TxtSub2}}
    \cup {Event(t, k[1], k[2], k[3], None, TxtSub, None, None) :
        t \in {TxtSubscriptionDeleted, TxtInvoicePaymentFailed, TxtInvoiceCreated, None}}

\* customer.subscription.created and .updated for lookup `k`
SubscriptionEventsFor(k) ==
    {Event(t, k[1], k[2], k[3], None, TxtSub2, s, Num(2)) :
        t \in {TxtSubscriptionCreated, TxtSubscriptionUpdated}, s \in ExternalStatuses}
    \cup {Event(TxtSubscriptionUpdated, k[1], k[2], k[3], None, x[1], x[2], x[3]) :
        x \in {<<None, TxtActive, None>>, <<TxtSub, TxtPastDue, Num(0)>>,
               <<None, TxtCanceled, Num(2)>>}}

BillingEvents ==
    UNION {EventsFor(k) : k \in LookupsA}
    \cup SubscriptionEventsFor(<<None, <<"a">>, None>>)
    \cup {Event(t, k[1], k[2], k[3], TxtSub, TxtSub, TxtCanceled, Num(2)) :
            t \in {TxtCheckoutSessionCompleted, TxtSubscriptionUpdated},
            k \in LookupsOther \cup LookupsB}

\* the events during whose handling something fails: those of one lookup of
\* user "a", an update, and an update whose current_period_end is no numeral
FailingEvents ==
    EventsFor(<<None, <<"a">>, None>>)
    \cup {Event(TxtSubscriptionUpdated, None, <<"a">>, None, None, TxtSub2, TxtActive, p) :
            p \in {Num(2), TxtSoon}}

\* Stripe has the customer the event names
StripeKnows(customer) ==
    customer \in {TxtCus, TxtCus2} => \E u \in Users : users[u].stripe_customer_id = customer

InitBilling ==
    /\ users = [u \in Users |-> FreshUser]
    /\ threads = NoThreads
    /\ nextId = 1
    /\ now = 0
    /\ last = NoLast
    /\ sessions = NoSessions

NextBilling ==
    \/ CreateCheckoutSession("a")
    \/ \E e \in BillingEvents :
          StripeKnows(e.customer)
          /\ StripeWebhook(TxtWhsec, GoodHeader(Body(e)), WallClock, Body(e))
    \/ \E e \in FailingEvents, at \in {"query", "dt_from_unix", "commit"} :
          StripeWebhookFailing(TxtWhsec, GoodHeader(Body(e)), WallClock, Body(e), "a", at)

SpecBilling == InitBilling /\ [][NextBilling]_vars

\* -------------------------------------------------------- the signature run
\* Webhook calls with every Stripe-Signature header of up to MaxHeaderParts
\* parts, about user "a": timestamps at and past both ends of the tolerance
\* window, signatures made with the configured secret for each of them, one
\* made with another key, a v0 part.

SampleCheckout ==
    Body(Event(TxtCheckoutSessionCompleted, None, <<"a">>, None, TxtSub, None, None, None))

SampleDeleted ==
    Body(Event(TxtSubscriptionDeleted, None, <<"a">>, None, None, TxtSub, None, None))

HeaderTimestamps ==
    {Num(WallClock - ToleranceSeconds - 1), Num(WallClock - ToleranceSeconds),
     Num(WallClock + ToleranceSeconds + 1)}

HeaderParts(payload) ==
    {Part("t", v) : v \in HeaderTimestamps \cup {TxtSoon}}
    \cup {Part("v1", Hmac(TxtWhsec, t, payload)) : t \in HeaderTimestamps}
    \cup {Part("v1", Hmac(TxtOtherSecret, Num(WallClock - ToleranceSeconds), payload)),
          Part("v0", Hmac(TxtWhsec, Num(WallClock - ToleranceSeconds), payload))}

\* the header absent or empty, or of 1..MaxHeaderParts parts
Headers(payload) == UNION {[1..n -> HeaderParts(payload)] : n \in 0..MaxHeaderParts}

InitWebhook ==
    /\ users = [u \in Users |-> FreshUser]
    /\ threads = NoThreads
    /\ nextId = 1
    /\ now = 0
    /\ last = NoLast
    /\ sessions = NoSessions

NextWebhook ==
    \/ \E h \in Headers(SampleCheckout) :
          StripeWebhook(TxtWhsec, h, WallClock, SampleCheckout)
    \/ \E payload \in {SampleDeleted, NotJson} :
          StripeWebhook(TxtWhsec, GoodHeader(payload), WallClock, payload)
    \/ StripeWebhook(None, GoodHeader(SampleCheckout), WallClock, SampleCheckout)

SpecWebhook == InitWebhook /\ [][NextWebhook]_vars

\* --------------------------------------------------------- the plan-limit run
\* Base user "a" owns thread 1, two rows short of the message limit, and
\* creates threads up to the thread limit; rows are appended to thread 1 and
\* its list is saved whole, one row short of the limit or one row past it.
GivenFiller(n) ==
    [i \in 1..n |-> [role |-> IF i % 2 = 1 THEN "user" ELSE "assistant", content |-> TxtHi]]

GivenLists == {GivenFiller(BaseMaxMessages - 1), GivenFiller(BaseMaxMessages + 1)}

InitLimits ==
    /\ users = [u \in Users |-> IF u = "a" THEN FreshUser ELSE PremiumUser]
    /\ threads = (1 :> FilledThread(BaseMaxMessages - 2))
    /\ nextId = 2
    /\ now = 0
    /\ last = NoLast
    /\ sessions = NoSessions

NextLimits ==
    \/ CreateThread("a", None, now)
    \/ CreateThreadWithFirstUserMessage("a", TxtHi, now)
    \/ \E role \in {"user", "assistant"} : AddMessage("chats", "a", 1, role, TxtHi, now)
    \/ \E role \in {"user", "assistant"} : AddImageMessage("chats", "a", 1, role, TxtHi, now)
    \/ \E msgs \in GivenLists : ReplaceMessages("a", 1, msgs, now, FALSE)
    \/ \E msgs \in GivenLists : UpdateChat("a", 1, None, TRUE, msgs, now)

SpecLimits == InitLimits /\ [][NextLimits]_vars

\* ------------------------------------------------------------ title claims
\* the operations that append rows to a thread
AppendOps == {"add_message", "add_image_message", "send_message", "chat_send"}

\* the step appended rows to thread `tid`, which existed before it
Appended(tid) ==
    /\ tid \in DOMAIN threads /\ tid \in DOMAIN threads'
    /\ last'.op \in AppendOps /\ last'.tid = tid
    /\ Len(threads'[tid].messages) > Len(threads[tid].messages)

\* the step's first new row of thread `tid`
NewRow(tid) == threads'[tid].messages[Len(threads[tid].messages) + 1]

C5_TitleSetIffFirstUserMessageOfUntitled ==
    [][\A tid \in DOMAIN threads :
          (Appended(tid) /\ last'.op = "add_message")
          => threads'[tid].title =
                IF /\ NewRow(tid).role = "user"
                   /\ ~IsTitleSet(threads[tid].title)
                   /\ ~HasUserMessage(threads[tid].messages)
                THEN TitleFromFirstUserMessage(NewRow(tid).content)
                ELSE threads[tid].title]_vars

\* C5 witness: the first user message of a thread created with the title ""
\* has been appended and the title is still "".
C5_EmptyTitleKept ==
    \E tid \in DOMAIN threads :
        /\ threads[tid].title = <<>>
        /\ Len(threads[tid].messages) = 1
        /\ threads[tid].messages[1].role = "user"
        /\ threads[tid].messages[1].content = TxtHi
        /\ last.op = "add_message" /\ last.ret = "ok" /\ last.tid = tid

C1_ThreadLimitFive ==
    [][(/\ last'.op \in {"create_thread", "create_thread_with_first_user_message"}
        /\ users[last'.caller] \in BaseUsers)
       => LET owned == Cardinality({i \in DOMAIN threads :
                                       threads[i].user_id = last'.caller})
              owned_after == Cardinality({i \in DOMAIN threads' :
                                             threads'[i].user_id = last'.caller})
          IN  IF owned >= 5
              THEN /\ last'.ret = "PlanLimit" /\ last'.code = "PLAN_MAX_CHATS"
                   /\ last'.limit = 5
                   /\ threads' = threads
              ELSE last'.ret = "ok" /\ owned_after = owned + 1]_vars

\* C1 witness: create-thread-with-first-message has failed for a base user
\* who owns fewer than 5 threads.
C1_FirstMessageCreateFailsUnderLimit ==
    /\ last.op = "create_thread_with_first_user_message"
    /\ last.ret = "InvalidRequestError"
    /\ users[last.caller] \in BaseUsers
    /\ Cardinality({i \in DOMAIN threads : threads[i].user_id = last.caller}) = 4

\* ---------------------------------------------------- message-limit claims
\* the rows of `msgs` with role user or assistant
UserOrAssistantRows(msgs) ==
    Cardinality({i \in 1..Len(msgs) : msgs[i].role = "user" \/ msgs[i].role = "assistant"})

\* C2: on a thread of a base-effective owner, append-message and
\* append-image-message fail with PLAN_MAX_MESSAGES (limit 30) when the thread
\* holds 30 or more rows of role user or assistant and append one row when it
\* holds fewer; rows of any other role are not counted.
C2_MessageLimitThirty ==
    [][(/\ last'.op \in {"add_message", "add_image_message"}
        /\ last'.tid \in DOMAIN threads
        /\ threads[last'.tid].user_id = last'.caller
        /\ users[last'.caller] = FreshUser
        /\ last'.http # 422)
       => LET msgs == threads[last'.tid].messages
          IN  IF UserOrAssistantRows(msgs) >= 30
              THEN /\ last'.ret = "PlanLimit" /\ last'.code = "PLAN_MAX_MESSAGES"
                   /\ last'.limit = 30
                   /\ threads' = threads
              ELSE /\ last'.ret = "ok"
                   /\ Len(threads'[last'.tid].messages) = Len(msgs) + 1]_vars

\* C2 witness: a thread opened by a system row holds 31 rows, 30 of them of
\* role user or assistant, and the append after those was refused.
C2_RefusedAtThirtyWithSystemRow ==
    /\ last.ret = "PlanLimit" /\ last.code = "PLAN_MAX_MESSAGES"
    /\ last.op \in {"add_message", "add_image_message"}
    /\ users["a"] = FreshUser
    /\ Len(threads[1].messages) = 31
    /\ threads[1].messages[1].role = "system"
    /\ UserOrAssistantRows(threads[1].messages) = 30

\* -------------------------------------------------------- context claims
\* `r` holds the rows of `msgs`, each as often as `msgs` does
SameRows(r, msgs) ==
    /\ Len(r) = Len(msgs)
    /\ \A i \in 1..Len(msgs) :
          Cardinality({j \in 1..Len(r) : r[j] = msgs[i]})
              = Cardinality({j \in 1..Len(msgs) : msgs[j] = msgs[i]})

\* `r` holds only rows of `msgs`, none more often than `msgs` does
RowsOf(r, msgs) ==
    \A i \in 1..Len(r) :
        Cardinality({j \in 1..Len(r) : r[j] = r[i]})
            <= Cardinality({j \in 1..Len(msgs) : msgs[j] = r[i]})

\* `r` and `w` have the same creation times, each as often
SameTimes(r, w) ==
    /\ Len(r) = Len(w)
    /\ \A i \in 1..Len(w) :
          Cardinality({j \in 1..Len(r) : r[j].created_at = w[i].created_at})
              = Cardinality({j \in 1..Len(w) : w[j].created_at = w[i].created_at})

\* `r` is a choice of the n most recent rows of `msgs` (rows are appended in
\* clock order; rows of equal creation time are equally recent)
MostRecent(r, msgs, n) ==
    RowsOf(r, msgs) /\ SameTimes(r, SubSeq(msgs, Len(msgs) - n + 1, Len(msgs)))

OldestFirst(r) == \A i, j \in 1..Len(r) : i < j => r[i].created_at <= r[j].created_at

\* C7: get-context-messages returns the thread's rows oldest first; exactly
\* the 12 most recent when the owner is base-effective and the thread has more
\* than 12; all of them when the owner is premium-effective; and it changes
\* no user, thread or message.
C7_ContextWindowByOwnerPlan ==
    [][(last'.op = "get_context_messages" /\ last'.tid \in DOMAIN threads)
       => LET msgs == threads[last'.tid].messages
              owner == users[threads[last'.tid].user_id]
              r == last'.result
          IN  /\ threads' = threads /\ users' = users
              /\ OldestFirst(r)
              /\ (owner = FreshUser /\ Len(msgs) > 12) => MostRecent(r, msgs, 12)
              /\ (owner = FreshUser /\ Len(msgs) <= 12) => SameRows(r, msgs)
              /\ owner = PremiumUser => SameRows(r, msgs)]_vars

\* C7 witness: the context of a base user's 13-row thread, read for the
\* premium user, holds all 13 rows.
C7_FullContextOfBaseOwnersThread ==
    /\ last.op = "get_context_messages" /\ last.caller = "b" /\ last.tid = 1
    /\ users["a"] = FreshUser /\ users["b"] = PremiumUser
    /\ Len(threads[1].messages) = 13
    /\ Len(last.result) = 13

\* ---------------------------------------------------- effective-plan claims
\* the stored values that read as premium, as a granting status, as the
\* PREMIUM tier, and as a present subscription id
ReadsPremium(plan) == plan \in {TxtPremium, TxtPremiumSpaced}
ReadsGranting(status) == status \in {TxtActive, TxtPastDue, TxtTrialing, TxtActiveSpaced}
ReadsPremiumTier(tier) == tier \in {TxtPREMIUM, TxtpremiumTier}
Present(id) == id # None /\ id # <<>>

TargetedOps ==
    {"get_thread", "get_thread_messages", "add_message", "add_image_message",
     "update_thread", "update_chat", "delete_thread", "send_message", "chat_send"}

\* the step ran a thread-id operation for a caller on a thread of another user
OnForeignThread ==
    /\ last'.op \in TargetedOps
    /\ last'.tid \in DOMAIN threads
    /\ threads[last'.tid].user_id # last'.caller

\* the step ran a thread-id operation on an id that no thread has
OnMissingThread ==
    /\ last'.op \in TargetedOps
    /\ last'.tid # 0
    /\ last'.tid \notin DOMAIN threads

\* C9: every operation a user runs on another user's thread reports not-found
\* and leaves every thread as it was, and a user's thread list holds only
\* that user's threads.
C9_ForeignThreadNotFoundAndUntouched ==
    [][/\ OnForeignThread => (last'.http = 404 /\ threads' = threads)
       /\ last'.op = "get_user_threads"
             => \A k \in 1..Len(last'.result) :
                   threads[last'.result[k]].user_id = last'.caller]_vars

\* C9 witness: a send into another user's thread has been answered 200.
C9_SendIntoForeignThreadAnswered ==
    /\ last.op = "chat_send" /\ last.http = 200
    /\ last.tid \in DOMAIN threads
    /\ threads[last.tid].user_id # last.caller

\* C10: on every path that checks the thread, the answer for a thread of
\* another user is the answer for an id no thread has: not found, never
\* forbidden. (chat_send, which answers 200 to both, is left to C9.)
C10_ForeignAnsweredAsMissing ==
    [][(last'.op # "chat_send" /\ (OnForeignThread \/ OnMissingThread))
       => last'.http = 404]_vars

\* C10 witness: a request for another user's thread has been answered 403.
C10_ForeignThreadForbidden ==
    /\ last.http = 403
    /\ last.tid \in DOMAIN threads
    /\ threads[last.tid].user_id # last.caller

\* ------------------------------------------------------- concurrency claims
\* the requests that ended with their row committed
Committed == {r \in DOMAIN sessions : sessions[r].pc = "done" /\ sessions[r].ret = "ok"}

\* C11: of two appends racing on a base-effective owner's thread of 29
\* user/assistant messages at most one succeeds, and the thread never holds
\* more than 30 user/assistant messages.
C11_RacingAppendsKeepLimit ==
    /\ \A p, q \in Committed :
          (sessions[p].message_count = BaseMaxMessages - 1
             /\ sessions[q].message_count = BaseMaxMessages - 1) => p = q
    /\ UserOrAssistantRows(threads[1].messages) <= BaseMaxMessages

\* C12: of two first user messages racing on an untitled thread at most one
\* writes the title.
C12_RacingFirstMessagesWriteTitleOnce ==
    Cardinality({r \in Committed : sessions[r].dirty}) <= 1

\* ------------------------------------------------------- atomicity claims
\* C13: create-thread-with-first-message is all-or-nothing: for an owner under
\* the thread limit it completes and the store then holds the new thread with
\* exactly one message, the given user message, and the title derived from
\* it; when it fails, neither the thread nor the message is persisted.
C13_CreateWithFirstMessageAllOrNothing ==
    [][last'.op = "create_thread_with_first_user_message"
       => IF ThreadLimitHit(threads, users, last'.caller)
          THEN last'.ret # "ok" /\ threads' = threads
          ELSE /\ last'.ret = "ok"
               /\ \E tid \in DOMAIN threads' \ DOMAIN threads :
                     /\ DOMAIN threads' = DOMAIN threads \cup {tid}
                     /\ \A i \in DOMAIN threads : threads'[i] = threads[i]
                     /\ threads'[tid].user_id = last'.caller
                     /\ Len(threads'[tid].messages) = 1
                     /\ threads'[tid].messages[1].role = "user"
                     /\ threads'[tid].title =
                           TitleFromFirstUserMessage(threads'[tid].messages[1].content)]_vars

\* C13 witness: the operation has failed for a premium owner, who has no
\* thread limit, and has left no thread behind.
C13_FailedWithoutLimitNothingPersisted ==
    /\ last.op = "create_thread_with_first_user_message"
    /\ last.ret = "InvalidRequestError"
    /\ users[last.caller] \in PremiumUsers
    /\ ThreadCount(threads, last.caller) = 0

\* ----------------------------------------------------------- billing claims
\* the step is a webhook call that reached handle_event
Delivered == last'.op = "stripe_webhook" /\ last'.ret = "ok"

\* ... and handle_event found a user, last'.caller
Handled == Delivered /\ last'.caller # ""

\* the event of the step's webhook call
Ev == last'.result.payload.event

\* the external status reads `name`, in any letter case
StatusReads(status, names) == status # None /\ Lower(status) \in names

\* C14: handling customer.subscription.deleted, or
\* customer.subscription.created/updated with a status that maps to canceled,
\* for a known user leaves the user with plan base, status canceled, no
\* subscription id and no renewal date, whatever the user's state before.
C14_CancellationDowngrades ==
    [][(/\ Handled
        /\ \/ Ev.type = TxtSubscriptionDeleted
           \/ /\ Ev.type \in {TxtSubscriptionCreated, TxtSubscriptionUpdated}
              /\ StatusReads(Ev.status, {TxtCanceled}))
       => /\ users'[last'.caller].plan = TxtBase
          /\ users'[last'.caller].plan_status = TxtCanceled
          /\ users'[last'.caller].stripe_subscription_id = None
          /\ users'[last'.caller].plan_renews_at = None]_vars

\* C14 witness: an update with status canceled that names a subscription has
\* been handled for user "a", who is now base, canceled, without subscription.
C14_CanceledUpdateCleared ==
    /\ last.op = "stripe_webhook" /\ last.ret = "ok" /\ last.caller = "a"
    /\ last.result.payload.event.type = TxtSubscriptionUpdated
    /\ last.result.payload.event.status = TxtCanceled
    /\ last.result.payload.event.id = TxtSub
    /\ users["a"].plan = TxtBase
    /\ users["a"].plan_status = TxtCanceled
    /\ users["a"].stripe_subscription_id = None

\* C15: handling invoice.payment_failed for a premium user keeps plan
\* premium, sets status past_due, leaves the subscription id and the renewal
\* date as they were, and the user's effective plan stays premium.
C15_PaymentFailedKeepsPremium ==
    [][(/\ Handled
        /\ Ev.type = TxtInvoicePaymentFailed
        /\ users[last'.caller].plan = TxtPremium)
       => /\ users'[last'.caller].plan = TxtPremium
          /\ users'[last'.caller].plan_status = TxtPastDue
          /\ users'[last'.caller].stripe_subscription_id =
                users[last'.caller].stripe_subscription_id
          /\ users'[last'.caller].plan_renews_at = users[last'.caller].plan_renews_at
          /\ EffectivePlan(users'[last'.caller]) = "premium"]_vars

\* C15 witness: a failed payment has been handled for user "a", who is
\* premium and past_due and still has a subscription id and a renewal date.
C15_PastDueWithRenewalKept ==
    /\ last.op = "stripe_webhook" /\ last.ret = "ok" /\ last.caller = "a"
    /\ last.result.payload.event.type = TxtInvoicePaymentFailed
    /\ users["a"].plan = TxtPremium
    /\ users["a"].plan_status = TxtPastDue
    /\ users["a"].stripe_subscription_id = TxtSub2
    /\ users["a"].plan_renews_at = Num(2)

\* the status table of C16: every value it does not name gives past_due
StatusTable(status) ==
    IF StatusReads(status, {TxtActive, TxtTrialing}) THEN TxtActive
    ELSE IF StatusReads(status, {TxtCanceled}) THEN TxtCanceled
    ELSE TxtPastDue

\* C16: for every customer.subscription.created/updated event the internal
\* status is the table's value for the external status (active only from
\* active or trialing, past_due for every value the table does not name), and
\* when that is not canceled the user ends premium, with that status and the
\* event's period end as renewal date.
C16_StatusMappedByTable ==
    [][(Handled /\ Ev.type \in {TxtSubscriptionCreated, TxtSubscriptionUpdated})
       => /\ users'[last'.caller].plan_status = StatusTable(Ev.status)
          /\ StatusTable(Ev.status) # TxtCanceled
                => /\ users'[last'.caller].plan = TxtPremium
                   /\ users'[last'.caller].plan_renews_at =
                         (IF Ev.current_period_end = Num(0) THEN None
                          ELSE Ev.current_period_end)]_vars

\* C16 witness: an update without a status has been handled and has left
\* the user with status active.
C16_ActiveWithoutExternalStatus ==
    /\ last.op = "stripe_webhook" /\ last.ret = "ok" /\ last.caller = "a"
    /\ last.result.payload.event.type = TxtSubscriptionUpdated
    /\ last.result.payload.event.status = None
    /\ users["a"].plan_status = TxtActive

\* C17: handling checkout.session.completed or invoice.paid for a known user
\* sets plan premium and status active, sets the subscription id to the
\* event's when it carries one and leaves it otherwise, and leaves the
\* renewal date as it was.
C17_PaidIsPremiumActive ==
    [][(Handled /\ Ev.type \in {TxtCheckoutSessionCompleted, TxtInvoicePaid})
       => /\ users'[last'.caller].plan = TxtPremium
          /\ users'[last'.caller].plan_status = TxtActive
          /\ users'[last'.caller].stripe_subscription_id =
                (IF Ev.subscription # None THEN Ev.subscription
                 ELSE users[last'.caller].stripe_subscription_id)
          /\ users'[last'.caller].plan_renews_at = users[last'.caller].plan_renews_at]_vars

\* C17 witness: an invoice.paid without a subscription has been handled for
\* user "a", who is active and keeps the subscription and renewal date of before.
C17_PaidWithoutSubscriptionKeepsId ==
    /\ last.op = "stripe_webhook" /\ last.ret = "ok" /\ last.caller = "a"
    /\ last.result.payload.event.type = TxtInvoicePaid
    /\ last.result.payload.event.subscription = None
    /\ users["a"].plan_status = TxtActive
    /\ users["a"].stripe_subscription_id = TxtSub
    /\ users["a"].plan_renews_at = Num(2)

\* `text` is the id of user u
Names(text, u) == text # None /\ Strip(text) = <<u>>

\* no user matches the event by customer id, metadata user id or client
\* reference id
NoUserMatches(usr, e) ==
    \A u \in DOMAIN usr :
       /\ ~(e.customer # None /\ usr[u].stripe_customer_id = e.customer)
       /\ ~Names(e.user_id, u)
       /\ ~Names(e.client_reference_id, u)

\* C18: an event no user matches is ignored: the call returns without error
\* and no field of any user changes.
C18_UnknownUserIgnored ==
    [][(/\ last'.op = "stripe_webhook"
        /\ last'.ret \notin {"StripeConfigError", "InvalidSignature", "InvalidJSON"}
        /\ NoUserMatches(users, Ev))
       => last'.ret = "ok" /\ last'.http = 200 /\ users' = users]_vars

\* C18 witness: an event of a customer no user has was answered 200 without
\* a user, while user "a" is a subscriber.
C18_IgnoredForSubscriber ==
    /\ last.op = "stripe_webhook" /\ last.ret = "ok" /\ last.caller = ""
    /\ last.result.payload.event.customer = TxtCusExt
    /\ last.result.payload.event.type = TxtCheckoutSessionCompleted
    /\ users["a"].plan = TxtPremium
    /\ users["a"].stripe_customer_id = TxtCus
    /\ users["b"] = FreshUser

\* C19: handling the same event twice in succession leaves every user's
\* plan, status, renewal date, subscription id and legacy tier as they were
\* after the first handling.
C19_DuplicateDeliveryChangesNothing ==
    [][(/\ last.op = "stripe_webhook" /\ last.ret = "ok"
        /\ Delivered
        /\ last'.result.payload = last.result.payload)
       => \A u \in Users :
             /\ users'[u].plan = users[u].plan
             /\ users'[u].plan_status = users[u].plan_status
             /\ users'[u].plan_renews_at = users[u].plan_renews_at
             /\ users'[u].stripe_subscription_id = users[u].stripe_subscription_id
             /\ users'[u].subscription_tier = users[u].subscription_tier]_vars

\* C19 witness: a checkout event of an unknown customer with the user's id
\* in its metadata has been handled; the user has taken the customer id, so
\* that a second delivery finds the user by customer id.
C19_DeliveredOnceFoundByCustomerNext ==
    /\ last.op = "stripe_webhook" /\ last.ret = "ok" /\ last.caller = "a"
    /\ last.result.payload.event.type = TxtCheckoutSessionCompleted
    /\ last.result.payload.event.customer = TxtCusExt
    /\ users["a"].stripe_customer_id = TxtCusExt
    /\ users["a"].plan = TxtPremium

\* --------------------------------------------------------- signature claims
\* the step is a webhook call on a server whose secret is configured
Verified == last'.op = "stripe_webhook" /\ last'.ret # "StripeConfigError"

\* the header holds a timestamp within 300 seconds of the clock and a v1
\* signature equal to the HMAC of that timestamp and the body
WithinToleranceAndSigned(call) ==
    \E i, j \in DOMAIN call.sig_header :
       /\ call.sig_header[i].k = "t"
       /\ IsNum(call.sig_header[i].v)
       /\ call.sig_header[i].v[2] - call.wall <= 300
       /\ call.wall - call.sig_header[i].v[2] <= 300
       /\ call.sig_header[j].k = "v1"
       /\ call.sig_header[j].v = Hmac(call.secret, call.sig_header[i].v, call.payload)

\* C20: a webhook is accepted only when its header's timestamp is within 300
\* seconds of the current time and one of its v1 signatures equals the
\* expected HMAC (so one more than 300 seconds off is rejected even with a
\* matching HMAC), and a rejected webhook is answered 400 and changes no user.
C20_AcceptedOnlyFreshAndSigned ==
    [][Verified
       => /\ last'.ret # "InvalidSignature" => WithinToleranceAndSigned(last'.result)
          /\ last'.ret = "InvalidSignature" => last'.http = 400 /\ users' = users]_vars

\* C20 witness: a call whose timestamp is 301 seconds old and whose v1
\* signature is the HMAC for that timestamp was rejected.
C20_StaleButSignedRejected ==
    /\ last.op = "stripe_webhook" /\ last.ret = "InvalidSignature" /\ last.http = 400
    /\ last.result.sig_header =
          <<Part("t", Num(last.result.wall - 301)),
            Part("v1", Hmac(TxtWhsec, Num(last.result.wall - 301), last.result.payload))>>
    /\ users["a"] = FreshUser

\* ---------------------------------------------------------- ordering claims
\* the roles and contents of rows, in their order
RolesAndContents(rows) ==
    [i \in 1..Len(rows) |-> [role |-> rows[i].role, content |-> rows[i].content]]

\* C21: replace-all-messages on an owned thread leaves the thread holding
\* exactly the provided messages, read back in the provided order with the
\* provided roles and contents, none of the previous messages remaining, and
\* leaves the title unchanged.
C21_ReplacedReadBackAsProvided ==
    [][(last'.op = "replace_messages" /\ last'.ret = "ok")
       => /\ RolesAndContents(last'.result.returned) = last'.result.given
          /\ RolesAndContents(threads'[last'.tid].messages) = last'.result.given
          /\ threads'[last'.tid].title = threads[last'.tid].title]_vars

\* C21 witness: two messages were saved over a titled thread and came back
\* with the assistant row before the user row.
C21_SavedPairReadBackReversed ==
    /\ last.op = "replace_messages" /\ last.ret = "ok"
    /\ Len(last.result.given) = 2
    /\ last.result.returned[1].role = "assistant"
    /\ last.result.returned[2].role = "user"
    /\ threads[last.tid].title = TxtHi

\* C22: messages of a thread are read back in the order they were appended:
\* creation times are strictly increasing per thread, so every message list
\* shows the user message of a send before its reply.
C22_ReadBackInAppendOrder ==
    [][(last'.op = "get_thread_messages" /\ last'.ret = "ok")
       => /\ last'.result = threads[last'.tid].messages
          /\ \A i, j \in 1..Len(threads[last'.tid].messages) :
                i < j => threads[last'.tid].messages[i].created_at
                            < threads[last'.tid].messages[j].created_at]_vars

\* C22 witness: a message list shows the reply of a send, the row appended
\* last, before the user message it answers.
C22_ReplyListedBeforeItsMessage ==
    /\ last.op = "get_thread_messages" /\ last.ret = "ok"
    /\ Len(last.result) >= 2
    /\ Len(last.result) = Len(threads[1].messages)
    /\ threads[1].messages[Len(last.result)].content = TxtReply
    /\ threads[1].messages[Len(last.result) - 1].role = "user"
    /\ \E i, j \in 1..Len(last.result) :
          /\ i < j
          /\ last.result[i] = threads[1].messages[Len(last.result)]
          /\ last.result[j] = threads[1].messages[Len(last.result) - 1]

\* ------------------------------------------------------------ refusal claims
LimitedOps ==
    {"create_thread", "create_thread_with_first_user_message", "add_message",
     "add_image_message"}

C25_BaseThreadNeverOverThirty ==
    \A tid \in DOMAIN threads :
        EffectivePlan(users[threads[tid].user_id]) = "base"
            => UserOrAssistantRows(threads[tid].messages) <= BaseMaxMessages

\* C25 witness: a saved list left 31 counted rows on the thread of base
\* user "a".
C25_ThirtyOneRowsSaved ==
    /\ last.op \in {"replace_messages", "update_chat"} /\ last.ret = "ok"
    /\ EffectivePlan(users["a"]) = "base"
    /\ UserOrAssistantRows(threads[1].messages) = BaseMaxMessages + 1

\* ---------------------------------------------------------- failure claims
\* a webhook call answered 500 because handle_event raised
Failed == last'.op = "stripe_webhook" /\ last'.ret = "HTTPException" /\ last'.http = 500

\* C24: when handling a webhook event fails part-way, no field of any user
\* record is changed by that event, and handling the same event again from
\* the state the failure left gives the state one successful handling gives.
C24_FailedEventChangesNothing ==
    [][Failed
       => /\ users' = users
          /\ FindUser(users', Ev) = FindUser(users, Ev)
          /\ \A u \in FindUser(users, Ev) :
                HandleEvent(users', Ev, u) = HandleEvent(users, Ev, u)]_vars

\* C24 witness: the commit failed for an event that would have changed the
\* row of user "a", which is as before.
C24_CommitFailedRowKept ==
    /\ last.op = "stripe_webhook" /\ last.http = 500 /\ last.code = "commit"
    /\ last.caller = "a"
    /\ HandleEventOn(users["a"], last.result.payload.event) # users["a"]
    /\ users["a"].stripe_customer_id = TxtCus

\* ----------------------------------------------------- payment-failed claims
\* C26: for a known user whose effective plan is base, handling an
\* invoice.payment_failed event leaves the effective plan base.
C26_PaymentFailedNeverUpgrades ==
    [][(/\ Handled
        /\ Strip(OrElse(Ev.type, <<>>)) = TxtInvoicePaymentFailed
        /\ EffectivePlan(users[last'.caller]) = "base")
       => EffectivePlan(users'[last'.caller]) = "base"]_vars

\* C26 witness: a user who never subscribed is premium and past_due after an
\* invoice.payment_failed event.
C26_NeverSubscribedPremiumAfterFailure ==
    /\ last.op = "stripe_webhook" /\ last.ret = "ok" /\ last.caller = "a"
    /\ Strip(OrElse(last.result.payload.event.type, <<>>)) = TxtInvoicePaymentFailed
    /\ users["a"].stripe_subscription_id = None
    /\ users["a"].plan = TxtPremium /\ users["a"].plan_status = TxtPastDue
    /\ EffectivePlan(users["a"]) = "premium"

\* ------------------------------------------------------ plan-state claims
\* C28: in every state reached from freshly signed-up users by webhook
\* events, for every user: plan premium implies plan_status active or
\* past_due; plan base implies no subscription id and no renewal date; the
\* legacy tier is PREMIUM exactly when the plan is premium; and the effective
\* plan is premium exactly when the stored plan is premium.
C28_PlanFieldsConsistent ==
    \A u \in Users :
        /\ users[u].plan \in {TxtBase, TxtPremium}
        /\ users[u].plan = TxtPremium => users[u].plan_status \in {TxtActive, TxtPastDue}
        /\ users[u].plan = TxtBase
              => users[u].stripe_subscription_id = None /\ users[u].plan_renews_at = None
        /\ users[u].subscription_tier = TxtPREMIUM <=> users[u].plan = TxtPremium
        /\ EffectivePlan(users[u]) = "premium" <=> users[u].plan = TxtPremium
        /\ EffectivePlanNoSubCheck(users[u]) = EffectivePlan(users[u])

\* C28 witness: after a webhook user "a" is premium and past_due with a
\* subscription id and a renewal date, while "b" has been downgraded.
C28_PremiumPastDueBesideDowngraded ==
    /\ last.op = "stripe_webhook" /\ last.ret = "ok"
    /\ users["a"].plan = TxtPremium /\ users["a"].plan_status = TxtPastDue
    /\ users["a"].stripe_subscription_id # None /\ users["a"].plan_renews_at # None
    /\ users["b"].plan = TxtBase /\ users["b"].plan_status = TxtCanceled

\* C29: once customer.subscription.deleted has been handled and the user is
\* on base, an invoice.paid that arrives later, or is delivered again, leaves
\* the user on base with no subscription id.
C29_PaidAfterDeletionStaysBase ==
    [][(/\ Handled
        /\ Strip(OrElse(Ev.type, <<>>)) = TxtInvoicePaid
        /\ users[last'.caller].plan = TxtBase
        /\ users[last'.caller].plan_status = TxtCanceled)
       => /\ users'[last'.caller].plan = TxtBase
          /\ EffectivePlan(users'[last'.caller]) = "base"
          /\ users'[last'.caller].stripe_subscription_id = None]_vars

\* ---------------------------------------------------- context-privacy claims
\* C27: get-context-messages called for (thread id, user) returns stored
\* messages only when the thread is owned by that user, so a send with a
\* thread id the caller does not own feeds no message of that thread into
\* the context of the reply.
C27_ContextOnlyOfOwnThread ==
    [][(/\ last'.op \in {"get_context_messages", "send_message", "chat_send"}
        /\ last'.ret = "ok"
        /\ ~Owns(threads', last'.tid, last'.caller))
       => last'.result = <<>>]_vars

\* C27 witness: a send by "b" into thread 1 of "a" was answered with a reply
\* whose context held rows of that thread.
C27_ForeignRowsInReplyContext ==
    /\ last.op = "chat_send" /\ last.ret = "ok" /\ last.caller = "b" /\ last.tid = 1
    /\ threads[1].user_id = "a"
    /\ Len(last.result) > 0
    /\ \E i \in 1..Len(last.result), j \in 1..Len(threads[1].messages) :
          last.result[i] = threads[1].messages[j]

\* ------------------------------------------------------------- send claims
Sends == {"send_message", "chat_send"}

\* C30: in both send operations into the caller's own thread, when the user
\* message is accepted and the reply's append fails with PLAN_MAX_MESSAGES
\* (base owner, 29 counted rows before the send), the request succeeds, the
\* reply is not stored, and the thread holds exactly 30 counted rows, the
\* user message last; a request whose reply append failed otherwise is
\* answered with that failure, and a successful request that stored one row
\* only is one whose reply was refused at the limit.
C30_ReplyLimitSwallowedOnly ==
    [][(last'.op \in Sends /\ Owns(threads, last'.tid, last'.caller))
       => LET old == threads[last'.tid].messages
              new == threads'[last'.tid].messages
              atLimit == /\ EffectivePlan(users[last'.caller]) = "base"
                         /\ UserOrAssistantRows(old) = BaseMaxMessages - 1
              userRowOnly == /\ Len(new) = Len(old) + 1
                             /\ SubSeq(new, 1, Len(old)) = old
                             /\ new[Len(new)].role = "user"
                             /\ new[Len(new)].content = TxtHi
          IN  /\ (atLimit /\ last'.ret \notin ReplyFailures)
                    => /\ last'.ret = "ok" /\ last'.http = 200
                       /\ userRowOnly
                       /\ UserOrAssistantRows(new) = BaseMaxMessages
              /\ (last'.ret = "ok" /\ Len(new) = Len(old) + 1) => atLimit
              /\ last'.ret \in ReplyFailures => last'.http = 500 /\ userRowOnly
              /\ (last'.ret = "ok" /\ ~atLimit)
                    => /\ Len(new) = Len(old) + 2
                       /\ new[Len(new)].role = "assistant"
                       /\ new[Len(new)].content = TxtReply]_vars

\* C30 witness: a send succeeded on the base user's thread, which holds 30
\* counted rows and ends in the user message of that send.
C30_SentWithoutStoredReply ==
    /\ last.op \in Sends /\ last.ret = "ok" /\ last.caller = "a"
    /\ users["a"] = FreshUser
    /\ UserOrAssistantRows(threads[1].messages) = BaseMaxMessages
    /\ threads[1].messages[Len(threads[1].messages)].role = "user"
    /\ threads[1].updated_at = now

====
